---------------------------- MODULE Spec2Model ----------------------------
(***************************************************************************)
(* Caching cursor decorators of crates/trie-parallel/src/cached_cursors.   *)
(*                                                                         *)
(* A decorator wraps one real cursor and a handle to a cache that it       *)
(* shares with the other decorators.  Every operation of a decorator takes *)
(* the mutex of its cache before it reads the cache and keeps the guard    *)
(* until it returns, so the part of an operation that reads or writes the  *)
(* cache is one atomic step.  What an operation does before it takes the   *)
(* mutex touches only the decorator's own fields.                          *)
(*                                                                         *)
(* Option<T> is a sequence of length at most one: None is <<>> and         *)
(* Some(x) is <<x>>.  A map is a function whose DOMAIN is its key set.     *)
(***************************************************************************)
EXTENDS Integers, Sequences, FiniteSets, Bags, TLC

(***************************************************************************)
(* Bounds of the model.                                                    *)
(***************************************************************************)
\* number of entries of account_data; their keys are 1..NumAccounts
NumAccounts == 2
\* number of decorators that act freely on one shared cache
NumCursors == 2
\* largest logical index a decorator's next() may reach
MaxIndex == 2
\* number of calls the first decorator of a replay makes
MaxCalls == 5
\* number of calls the bystander of a replay makes
MaxOther == 1
\* largest path of a trie
MaxPath == 1
\* number of accounts that have a storage trie
NumAddresses == 2
\* number of calls the trie decorators are given in all
MaxTrieCalls == 5
\* largest ordinal of a real call of one operation that can be made to fail
MaxFail == 3
\* number of calls in which a real call fails
MaxFaults == 1
\* number of decorator calls the threads of the locking specification make
MaxLockCalls == 2

\* the decorators that act freely
Cursors == 1..NumCursors
\* a replay: First makes calls, Second repeats them, Other makes calls of its own
First == 1
Second == 2
Other == NumCursors + 1
Decorators == 1..(NumCursors + 1)

None == <<>>
Some(x) == <<x>>
IsSome(o) == Len(o) = 1
Unwrap(o) == o[1]

\* Result<T, DatabaseError>
Ok(v) == [ok |-> TRUE, val |-> v]
Err == [ok |-> FALSE]

\* AHashMap::get
Get(m, k) == IF k \in DOMAIN m THEN Some(m[k]) ELSE None
\* AHashMap::insert
Insert(m, k, v) == [x \in (DOMAIN m) \cup {k} |-> IF x = k THEN v ELSE m[x]]
EmptyMap == [x \in {} |-> 0]

Min(S) == CHOOSE x \in S : \A y \in S : x <= y

(***************************************************************************)
(* The underlying data and the real account cursor (TestAccountCursor).    *)
(***************************************************************************)
\* TestCursorFactory.account_data: (key, Account), the Account told by its nonce
account_data == [i \in 1..NumAccounts |-> <<i, i>>]
\* the keys a caller may seek: key 0 is not a key of the data
AccountKeys == 0..NumAccounts

\* Vec::get with a 0-based index
VecGet(v, i) == IF i >= 0 /\ i < Len(v) THEN Some(v[i + 1]) ELSE None

\* TestCursorFactory::hashed_account_cursor
NewTestAccountCursor == [idx |-> 0]

\* TestAccountCursor::seek: (the cursor after the call, the value returned)
TestAccountSeek(c, key) ==
  LET hits == {i \in 0..(Len(account_data) - 1) : account_data[i + 1][1] = key}
      at   == IF hits = {} THEN Len(account_data) ELSE Min(hits)
  IN  [cursor |-> [c EXCEPT !.idx = at],
       val    |-> VecGet(account_data, IF hits = {} THEN -1 ELSE at)]

\* TestAccountCursor::next
TestAccountNext(c) ==
  IF c.idx >= Len(account_data)
  THEN [cursor |-> c, val |-> None]
  ELSE [cursor |-> [c EXCEPT !.idx = @ + 1],
        val    |-> VecGet(account_data, c.idx + 1)]

(***************************************************************************)
(* CachedHashedAccountCursor.                                              *)
(***************************************************************************)
\* enum AccountCursorPos
AccountUninit == [tag |-> "Uninit"]
AccountSeekPos(k) == [tag |-> "Seek", key |-> k]
AccountNextPos(k, i) == [tag |-> "Next", key |-> k, index |-> i]

\* NextAccountCacheEntry::default
NewNextEntry == [terminated_size |-> None, values |-> <<>>]
\* AccountCursorCache::default
NewAccountCursorCache == [seek_cache |-> EmptyMap, next_cache |-> EmptyMap]

\* CachedHashedAccountCursor::new
NewCachedHashedAccountCursor ==
  [cursor |-> NewTestAccountCursor,
   underlying_cursor_last_key |-> None,
   position |-> AccountUninit,
   last_value |-> None]

\* a faulty KeyOf: an absent value is taken to have the key 0
KeyOfOrZero(val) == IF IsSome(val) THEN Some(Unwrap(val)[1]) ELSE Some(0)

\* val.as_ref().map(|(k, _)| *k)
KeyOf(val) == IF IsSome(val) THEN Some(Unwrap(val)[1]) ELSE None

(***************************************************************************)
(* An operation of a decorator is an operator from the decorator, the      *)
(* cache and the arguments to a record of the decorator and the cache      *)
(* after the call, the Result returned, and the numbers of real seek and   *)
(* real next calls it issued (what TestAccountCursor counts in seeks and   *)
(* nexts).  fail is the ordinal of the real call of this operation that    *)
(* returns a DatabaseError, 0 when none does; a failing real call leaves   *)
(* the real cursor where it is.                                            *)
(***************************************************************************)

\* a place of a cache that a real call's result is committed to: the entry of key
\* in a table, at an index for a sequence
Slot(table, key, index) == [table |-> table, key |-> key, index |-> index]

\* a faulty AccountSeek: the seek table is written but never read
AccountSeekUncached(self, cache, key, fail) ==
  LET s1 == [self EXCEPT !.position = AccountSeekPos(key)]
      r  == TestAccountSeek(s1.cursor, key)
  IN  IF fail = 1
      THEN [self |-> s1, cache |-> cache, res |-> Err, seeks |-> 1, nexts |-> 0,
            fills |-> {}]
      ELSE [self  |-> [s1 EXCEPT !.cursor = r.cursor,
                                 !.underlying_cursor_last_key = KeyOf(r.val),
                                 !.last_value = r.val],
            cache |-> [cache EXCEPT !.seek_cache = Insert(@, key, r.val)],
            res   |-> Ok(r.val),
            seeks |-> 1, nexts |-> 0,
            fills |-> {Slot("seek_cache", key, 0)}]

\* CachedHashedAccountCursor::seek
AccountSeek(self, cache, key, fail) ==
  LET s1 == [self EXCEPT !.position = AccountSeekPos(key)]
  IN  IF key \in DOMAIN cache.seek_cache
      THEN [self  |-> [s1 EXCEPT !.last_value = cache.seek_cache[key]],
            cache |-> cache,
            res   |-> Ok(cache.seek_cache[key]),
            seeks |-> 0, nexts |-> 0, fills |-> {}]
      ELSE IF fail = 1
      THEN [self |-> s1, cache |-> cache, res |-> Err, seeks |-> 1, nexts |-> 0,
            fills |-> {}]
      ELSE LET r == TestAccountSeek(s1.cursor, key)
           IN  [self  |-> [s1 EXCEPT !.cursor = r.cursor,
                                     !.underlying_cursor_last_key = KeyOf(r.val),
                                     !.last_value = r.val],
                cache |-> [cache EXCEPT !.seek_cache = Insert(@, key, r.val)],
                res   |-> Ok(r.val),
                seeks |-> 1, nexts |-> 0,
                fills |-> {Slot("seek_cache", key, 0)}]

\* a faulty NextTarget: a next() after a next() asks for the same index again
NextTargetStuck(p) ==
  IF p.tag = "Seek" THEN [key |-> p.key, index |-> 0]
  ELSE [key |-> p.key, index |-> p.index]

\* the (key, index) that next() asks for at position p (p is not Uninit)
NextTarget(p) ==
  IF p.tag = "Seek" THEN [key |-> p.key, index |-> 0]
  ELSE [key |-> p.key, index |-> p.index + 1]

\* a faulty AccountLastKey: the real cursor is always taken back to the seek key
AccountLastKeyOfSeek(entry, key) == key

\* the key the real cursor has to sit on before the real next(): the key of the
\* last cached value, or the seek key
AccountLastKey(entry, key) ==
  IF Len(entry.values) > 0 THEN entry.values[Len(entry.values)][1] ELSE key

\* a faulty AccountNeedsSeek: the real cursor is taken to be where the caller is
AccountNeedsSeekNever(self, last_key) == FALSE

\* whether next() repositions the real cursor before the real next()
AccountNeedsSeek(self, last_key) == self.underlying_cursor_last_key # Some(last_key)

\* a faulty TerminatedAt: the marker answers only beyond the recorded length
TerminatedAtBeyond(entry, index) ==
  IsSome(entry.terminated_size) /\ index > Unwrap(entry.terminated_size)

\* whether the termination marker answers a next() at this index
TerminatedAt(entry, index) ==
  IsSome(entry.terminated_size) /\ index >= Unwrap(entry.terminated_size)

\* a faulty EntryOrDefault: insert(key, default), which replaces an entry
EntryReplaced(m, key, default) == Insert(m, key, default)

\* cache.next_cache.entry(key).or_default()
EntryOrDefault(m, key, default) == IF key \in DOMAIN m THEN m ELSE Insert(m, key, default)

\* CachedHashedAccountCursor::next at a position that is not Uninit
AccountNext(self, cache, key, index, fail) ==
  LET s1    == [self EXCEPT !.position = AccountNextPos(key, index)]
      c1    == [cache EXCEPT !.next_cache = EntryOrDefault(@, key, NewNextEntry)]
      entry == c1.next_cache[key]
      hit   == VecGet(entry.values, index)
  IN  IF IsSome(hit)
      THEN [self |-> [s1 EXCEPT !.last_value = hit], cache |-> c1, res |-> Ok(hit),
            seeks |-> 0, nexts |-> 0, fills |-> {}]
      ELSE IF TerminatedAt(entry, index)
      THEN [self |-> [s1 EXCEPT !.last_value = None], cache |-> c1, res |-> Ok(None),
            seeks |-> 0, nexts |-> 0, fills |-> {}]
      ELSE
        LET last_key == AccountLastKey(entry, key)
            reseek   == AccountNeedsSeek(s1, last_key)
            ns       == IF reseek THEN 1 ELSE 0
            sk       == TestAccountSeek(s1.cursor, last_key)
            s2       == IF reseek
                        THEN [s1 EXCEPT !.cursor = sk.cursor,
                                        !.underlying_cursor_last_key = KeyOf(sk.val)]
                        ELSE s1
            nx       == TestAccountNext(s2.cursor)
            s3       == [s2 EXCEPT !.cursor = nx.cursor,
                                   !.underlying_cursor_last_key = KeyOf(nx.val),
                                   !.last_value = nx.val]
        IN  IF reseek /\ fail = 1
            THEN [self |-> s1, cache |-> c1, res |-> Err, seeks |-> 1, nexts |-> 0,
                  fills |-> {}]
            ELSE IF fail = ns + 1
            THEN [self |-> s2, cache |-> c1, res |-> Err, seeks |-> ns, nexts |-> 1,
                  fills |-> {}]
            ELSE IF IsSome(nx.val)
            THEN [self  |-> s3,
                  cache |-> [c1 EXCEPT !.next_cache[key].values = Append(@, Unwrap(nx.val))],
                  res   |-> Ok(nx.val),
                  seeks |-> ns, nexts |-> 1,
                  fills |-> {Slot("next_cache", key, index)}]
            ELSE [self  |-> s3,
                  cache |-> [c1 EXCEPT !.next_cache[key].terminated_size =
                                          Some(Len(entry.values))],
                  res   |-> Ok(None),
                  seeks |-> ns, nexts |-> 1,
                  fills |-> {Slot("next_cache", key, index)}]

(***************************************************************************)
(* The real storage cursor (TestStorageCursor) and its data.               *)
(***************************************************************************)
\* TestCursorFactory.storage_data: (account, subkey, StorageEntry); account i
\* holds one slot, with subkey i; a StorageEntry is (key, value)
storage_data == [i \in 1..NumAccounts |-> <<i, i, <<i, 0>>>>]
\* TestCursorFactory.empty_storage
empty_storage == {0}
\* the (account, subkey) pairs a caller may seek: <<0, 0>> is not in the data
StorageKeys == {<<i, i>> : i \in 0..NumAccounts}
\* the accounts a caller may probe: one with empty storage, one without
ProbeKeys == {0, 1}

\* TestCursorFactory::hashed_storage_cursor
NewTestStorageCursor == [idx |-> 0]

\* TestStorageCursor::is_storage_empty
TestIsStorageEmpty(key) == key \in empty_storage

\* TestStorageCursor::seek
TestStorageSeek(c, key, subkey) ==
  LET hits == {i \in 0..(Len(storage_data) - 1) :
                 storage_data[i + 1][1] = key /\ storage_data[i + 1][2] = subkey}
      at   == IF hits = {} THEN Len(storage_data) ELSE Min(hits)
  IN  [cursor |-> [c EXCEPT !.idx = at],
       val    |-> IF hits = {} THEN None ELSE Some(storage_data[at + 1][3])]

\* TestStorageCursor::next
TestStorageNext(c) ==
  IF c.idx >= Len(storage_data)
  THEN [cursor |-> c, val |-> None]
  ELSE [cursor |-> [c EXCEPT !.idx = @ + 1],
        val    |-> IF c.idx + 1 < Len(storage_data)
                   THEN Some(storage_data[c.idx + 2][3]) ELSE None]

(***************************************************************************)
(* CachedHashedStorageCursor.  Its operations also report the real         *)
(* is_storage_empty calls they issue (probes).                             *)
(***************************************************************************)
\* enum StorageCursorPos
StorageUninit == [tag |-> "Uninit"]
StorageSeekPos(key, i) == [tag |-> "Seek", key |-> key, index |-> i]

\* HashedStorageCursorCache::default
NewStorageCursorCache == [empty_storage |-> EmptyMap, seek_cache |-> EmptyMap]

\* CachedHashedStorageCursor::new
NewCachedHashedStorageCursor ==
  [cursor |-> NewTestStorageCursor,
   cursor_pos |-> StorageUninit,
   position |-> StorageUninit]

\* a faulty StorageIsEmpty: the probe table is written but never read
StorageIsEmptyUncached(self, cache, key, fail) ==
  IF fail = 1
  THEN [self |-> self, cache |-> cache, res |-> Err,
        seeks |-> 0, nexts |-> 0, probes |-> 1, fills |-> {}]
  ELSE [self  |-> self,
        cache |-> [cache EXCEPT !.empty_storage = Insert(@, key, TestIsStorageEmpty(key))],
        res   |-> Ok(TestIsStorageEmpty(key)),
        seeks |-> 0, nexts |-> 0, probes |-> 1,
        fills |-> {Slot("empty_storage", <<key, key>>, 0)}]

\* CachedHashedStorageCursor::is_storage_empty
StorageIsEmpty(self, cache, key, fail) ==
  IF key \in DOMAIN cache.empty_storage
  THEN [self |-> self, cache |-> cache, res |-> Ok(cache.empty_storage[key]),
        seeks |-> 0, nexts |-> 0, probes |-> 0, fills |-> {}]
  ELSE IF fail = 1
  THEN [self |-> self, cache |-> cache, res |-> Err,
        seeks |-> 0, nexts |-> 0, probes |-> 1, fills |-> {}]
  ELSE [self  |-> self,
        cache |-> [cache EXCEPT !.empty_storage = Insert(@, key, TestIsStorageEmpty(key))],
        res   |-> Ok(TestIsStorageEmpty(key)),
        seeks |-> 0, nexts |-> 0, probes |-> 1,
        fills |-> {Slot("empty_storage", <<key, key>>, 0)}]

\* a faulty StorageRecordSeek: the sequence is started again from the seek result
StorageRecordSeekFresh(entry, val) ==
  IF IsSome(val) THEN [entry EXCEPT !.values = <<Unwrap(val)>>]
  ELSE [entry EXCEPT !.terminated_size = Some(0)]

\* the sequence entry after the result of a real seek is recorded in it
StorageRecordSeek(entry, val) ==
  IF IsSome(val) THEN [entry EXCEPT !.values = Append(@, Unwrap(val))]
  ELSE [entry EXCEPT !.terminated_size = Some(0)]

\* CachedHashedStorageCursor::seek; key is the pair (key, subkey)
StorageSeek(self, cache, key, fail) ==
  LET s1    == [self EXCEPT !.position = StorageSeekPos(key, 0)]
      c1    == [cache EXCEPT !.seek_cache = EntryOrDefault(@, key, NewNextEntry)]
      entry == c1.seek_cache[key]
  IN  IF Len(entry.values) > 0
      THEN [self |-> s1, cache |-> c1, res |-> Ok(Some(entry.values[1])),
            seeks |-> 0, nexts |-> 0, probes |-> 0, fills |-> {}]
      ELSE IF entry.terminated_size = Some(0)
      THEN [self |-> s1, cache |-> c1, res |-> Ok(None),
            seeks |-> 0, nexts |-> 0, probes |-> 0, fills |-> {}]
      ELSE IF fail = 1
      THEN [self |-> s1, cache |-> c1, res |-> Err,
            seeks |-> 1, nexts |-> 0, probes |-> 0, fills |-> {}]
      ELSE LET r == TestStorageSeek(s1.cursor, key[1], key[2])
           IN  [self  |-> [s1 EXCEPT !.cursor = r.cursor,
                                     !.cursor_pos = StorageSeekPos(key, 0)],
                cache |-> [c1 EXCEPT !.seek_cache[key] = StorageRecordSeek(@, r.val)],
                res   |-> Ok(r.val),
                seeks |-> 1, nexts |-> 0, probes |-> 0,
                fills |-> {Slot("seek_cache", key, 0)}]

\* whether next() issues a real seek before it advances the real cursor
StorageNeedsSeek(self, key) ==
  (IF self.cursor_pos.tag = "Seek" THEN Some(self.cursor_pos.key) ELSE None) # Some(key)

\* the loop of CachedHashedStorageCursor::next: the real cursor, which has made
\* current_index steps from the entry of key, is advanced to index; acc holds the
\* real seeks and real nexts the operation has issued before and the slots it
\* has committed a result to
RECURSIVE StorageAdvance(_, _, _, _, _, _, _)
StorageAdvance(self, cache, key, index, current_index, fail, acc) ==
  IF ~(current_index < index)
  THEN [self |-> self, cache |-> cache,
        res |-> Ok(VecGet(cache.seek_cache[key].values, index)),
        seeks |-> acc.seeks, nexts |-> acc.nexts, probes |-> 0, fills |-> acc.fills]
  ELSE IF fail = acc.seeks + acc.nexts + 1
  THEN [self |-> self, cache |-> cache, res |-> Err,
        seeks |-> acc.seeks, nexts |-> acc.nexts + 1, probes |-> 0, fills |-> acc.fills]
  ELSE LET nx == TestStorageNext(self.cursor)
           s1 == [self EXCEPT !.cursor = nx.cursor,
                              !.cursor_pos = StorageSeekPos(key, current_index + 1)]
           a1 == [acc EXCEPT !.nexts = @ + 1,
                             !.fills = @ \cup {Slot("seek_cache", key, current_index + 1)}]
       IN  IF IsSome(nx.val)
           THEN StorageAdvance(s1,
                  [cache EXCEPT !.seek_cache[key].values = Append(@, Unwrap(nx.val))],
                  key, index, current_index + 1, fail, a1)
           ELSE [self  |-> s1,
                 cache |-> [cache EXCEPT !.seek_cache[key].terminated_size =
                                           Some(Len(cache.seek_cache[key].values))],
                 res   |-> Ok(None),
                 seeks |-> a1.seeks, nexts |-> a1.nexts, probes |-> 0,
                 fills |-> a1.fills]

\* CachedHashedStorageCursor::next at a position Seek(key, index - 1)
StorageNext(self, cache, key, index, fail) ==
  LET s1    == [self EXCEPT !.position = StorageSeekPos(key, index)]
      c1    == [cache EXCEPT !.seek_cache = EntryOrDefault(@, key, NewNextEntry)]
      entry == c1.seek_cache[key]
      hit   == VecGet(entry.values, index)
  IN  IF IsSome(hit)
      THEN [self |-> s1, cache |-> c1, res |-> Ok(hit),
            seeks |-> 0, nexts |-> 0, probes |-> 0, fills |-> {}]
      ELSE IF TerminatedAt(entry, index)
      THEN [self |-> s1, cache |-> c1, res |-> Ok(None),
            seeks |-> 0, nexts |-> 0, probes |-> 0, fills |-> {}]
      ELSE
        LET reseek == StorageNeedsSeek(s1, key)
            sk     == TestStorageSeek(s1.cursor, key[1], key[2])
            s2     == IF reseek
                      THEN [s1 EXCEPT !.cursor = sk.cursor,
                                      !.cursor_pos = StorageSeekPos(key, 0)]
                      ELSE s1
            c2     == IF reseek
                      THEN [c1 EXCEPT !.seek_cache[key] = StorageRecordSeek(@, sk.val)]
                      ELSE c1
            acc    == IF reseek
                      THEN [seeks |-> 1, nexts |-> 0, fills |-> {Slot("seek_cache", key, 0)}]
                      ELSE [seeks |-> 0, nexts |-> 0, fills |-> {}]
        IN  IF reseek /\ fail = 1
            THEN [self |-> s1, cache |-> c1, res |-> Err,
                  seeks |-> 1, nexts |-> 0, probes |-> 0, fills |-> {}]
            ELSE StorageAdvance(s2, c2, key, index, s2.cursor_pos.index, fail, acc)

(***************************************************************************)
(* The real trie cursor.  Its code is not among the files of the crate:    *)
(* it is modelled from the contract the specification gives for it.  A     *)
(* trie is told by its scope: AccountTrie, or the account whose storage    *)
(* trie it is.  Paths are numbers; a scope holds a node at every odd path. *)
(* seek(p) positions the cursor on the first node at or after p;           *)
(* seek_exact(p) positions it on the node at p.  Where a seek_exact that   *)
(* finds no node leaves the cursor is not fixed by the contract: the       *)
(* cursor's field miss names it, "unpositioned" or "successor" (the node   *)
(* seek(p) would have found).                                              *)
(***************************************************************************)
\* the scope of the account trie; the scope of a storage trie is its account
AccountTrie == 0
TrieAddresses == 1..NumAddresses
TriePaths == 0..MaxPath
MissModes == {"unpositioned", "successor"}

TrieHasNode(scope, p) == p % 2 = 1
\* the BranchNodeCompact at path p of a scope
TrieNode(scope, p) == [trie |-> scope, node |-> p]
\* TrieKey::AccountNode(p), TrieKey::StorageNode(account, p)
TrieKeyOf(scope, p) == [trie |-> scope, path |-> p]

\* the path of the first node of the scope at or after p
TrieLowerBound(scope, p) ==
  LET after == {q \in TriePaths : q >= p /\ TrieHasNode(scope, q)}
  IN  IF after = {} THEN None ELSE Some(Min(after))

\* the (path, node) at an optional path
TrieEntry(scope, at) ==
  IF IsSome(at) THEN Some(<<Unwrap(at), TrieNode(scope, Unwrap(at))>>) ELSE None

\* TrieCursorFactory::account_trie_cursor, TrieCursorFactory::storage_tries_cursor
NewRealTrieCursor(scope, miss) == [scope |-> scope, pos |-> None, miss |-> miss]

\* TrieCursor::seek of the real cursor
RealTrieSeek(c, p) ==
  [cursor |-> [c EXCEPT !.pos = TrieLowerBound(c.scope, p)],
   val    |-> TrieEntry(c.scope, TrieLowerBound(c.scope, p))]

\* TrieCursor::seek_exact of the real cursor
RealTrieSeekExact(c, p) ==
  IF TrieHasNode(c.scope, p)
  THEN [cursor |-> [c EXCEPT !.pos = Some(p)], val |-> TrieEntry(c.scope, Some(p))]
  ELSE [cursor |-> [c EXCEPT !.pos = IF c.miss = "successor"
                                     THEN TrieLowerBound(c.scope, p) ELSE None],
        val    |-> None]

\* TrieCursor::current of the real cursor
RealTrieCurrent(c) ==
  [cursor |-> c,
   val    |-> IF IsSome(c.pos) THEN Some(TrieKeyOf(c.scope, Unwrap(c.pos))) ELSE None]

(***************************************************************************)
(* CachedTrieCursor.  Its operations report the real seek_exact, seek and  *)
(* current calls they issue (exacts, seeks, currents).                     *)
(***************************************************************************)
\* enum SeekArgs
SeekArgsNone == [tag |-> "None"]
SeekArgsSeekExact(p) == [tag |-> "SeekExact", key |-> p]
SeekArgsSeek(p) == [tag |-> "Seek", key |-> p]

\* SeekArgs::into_key
IntoKey(args) == IF args.tag = "None" THEN None ELSE Some(args.key)

\* TrieCursorCache::default
NewTrieCursorCache == [seek |-> EmptyMap, seek_exact |-> EmptyMap, current |-> EmptyMap]

\* CachedTrieCursor::new; cache is the identity of the TrieCursorCache it shares
NewCachedTrieCursor(cursor, cache) ==
  [cursor |-> cursor,
   cursor_last_seek |-> SeekArgsNone,
   last_seek |-> SeekArgsNone,
   cache |-> cache]

\* the panic of Option::expect, raised while the guard of the cache is held
Fatal == [ok |-> FALSE, fatal |-> TRUE]

\* a faulty TrieSeekExact: it reads the table of seek
TrieSeekExactOfSeek(self, cache, key, fail) ==
  LET s1 == [self EXCEPT !.last_seek = SeekArgsSeekExact(key)]
  IN  IF key \in DOMAIN cache.seek
      THEN [self |-> s1, cache |-> cache, res |-> Ok(cache.seek[key]),
            exacts |-> 0, seeks |-> 0, currents |-> 0, fills |-> {}]
      ELSE IF fail = 1
      THEN [self |-> s1, cache |-> cache, res |-> Err,
            exacts |-> 1, seeks |-> 0, currents |-> 0, fills |-> {}]
      ELSE LET r == RealTrieSeekExact(s1.cursor, key)
           IN  [self  |-> [s1 EXCEPT !.cursor = r.cursor,
                                     !.cursor_last_seek = SeekArgsSeekExact(key)],
                cache |-> [cache EXCEPT !.seek_exact = Insert(@, key, r.val)],
                res   |-> Ok(r.val),
                exacts |-> 1, seeks |-> 0, currents |-> 0,
                fills |-> {Slot("seek_exact", SeekArgsSeekExact(key), 0)}]

\* CachedTrieCursor::seek_exact
TrieSeekExact(self, cache, key, fail) ==
  LET s1 == [self EXCEPT !.last_seek = SeekArgsSeekExact(key)]
  IN  IF key \in DOMAIN cache.seek_exact
      THEN [self |-> s1, cache |-> cache, res |-> Ok(cache.seek_exact[key]),
            exacts |-> 0, seeks |-> 0, currents |-> 0, fills |-> {}]
      ELSE IF fail = 1
      THEN [self |-> s1, cache |-> cache, res |-> Err,
            exacts |-> 1, seeks |-> 0, currents |-> 0, fills |-> {}]
      ELSE LET r == RealTrieSeekExact(s1.cursor, key)
           IN  [self  |-> [s1 EXCEPT !.cursor = r.cursor,
                                     !.cursor_last_seek = SeekArgsSeekExact(key)],
                cache |-> [cache EXCEPT !.seek_exact = Insert(@, key, r.val)],
                res   |-> Ok(r.val),
                exacts |-> 1, seeks |-> 0, currents |-> 0,
                fills |-> {Slot("seek_exact", SeekArgsSeekExact(key), 0)}]

\* CachedTrieCursor::seek
TrieSeek(self, cache, key, fail) ==
  LET s1 == [self EXCEPT !.last_seek = SeekArgsSeek(key)]
  IN  IF key \in DOMAIN cache.seek
      THEN [self |-> s1, cache |-> cache, res |-> Ok(cache.seek[key]),
            exacts |-> 0, seeks |-> 0, currents |-> 0, fills |-> {}]
      ELSE IF fail = 1
      THEN [self |-> s1, cache |-> cache, res |-> Err,
            exacts |-> 0, seeks |-> 1, currents |-> 0, fills |-> {}]
      ELSE LET r == RealTrieSeek(s1.cursor, key)
           IN  [self  |-> [s1 EXCEPT !.cursor = r.cursor,
                                     !.cursor_last_seek = SeekArgsSeek(key)],
                cache |-> [cache EXCEPT !.seek = Insert(@, key, r.val)],
                res   |-> Ok(r.val),
                exacts |-> 0, seeks |-> 1, currents |-> 0,
                fills |-> {Slot("seek", SeekArgsSeek(key), 0)}]

\* whether current() repositions the real cursor before the real current()
TrieNeedsSeek(self) == self.cursor_last_seek # self.last_seek

\* CachedTrieCursor::current
TrieCurrent(self, cache, fail) ==
  IF self.last_seek \in DOMAIN cache.current
  THEN [self |-> self, cache |-> cache, res |-> Ok(cache.current[self.last_seek]),
        exacts |-> 0, seeks |-> 0, currents |-> 0, fills |-> {}]
  ELSE IF TrieNeedsSeek(self) /\ ~IsSome(IntoKey(self.last_seek))
  THEN [self |-> self, cache |-> cache, res |-> Fatal,
        exacts |-> 0, seeks |-> 0, currents |-> 0, fills |-> {}]
  ELSE
    LET reseek == TrieNeedsSeek(self)
        ns     == IF reseek THEN 1 ELSE 0
        s2     == IF reseek
                  THEN [self EXCEPT
                          !.cursor = RealTrieSeek(self.cursor,
                                                  Unwrap(IntoKey(self.last_seek))).cursor,
                          !.cursor_last_seek = self.last_seek]
                  ELSE self
        r      == RealTrieCurrent(s2.cursor)
    IN  IF reseek /\ fail = 1
        THEN [self |-> self, cache |-> cache, res |-> Err,
              exacts |-> 0, seeks |-> 1, currents |-> 0, fills |-> {}]
        ELSE IF fail = ns + 1
        THEN [self |-> s2, cache |-> cache, res |-> Err,
              exacts |-> 0, seeks |-> ns, currents |-> 1, fills |-> {}]
        ELSE [self  |-> [s2 EXCEPT !.cursor = r.cursor],
              cache |-> [cache EXCEPT !.current = Insert(@, self.last_seek, r.val)],
              res   |-> Ok(r.val),
              exacts |-> 0, seeks |-> ns, currents |-> 1,
              fills |-> {Slot("current", self.last_seek, 0)}]

\* TrieCursorsCaches::default: the caches that exist, told by their place in the
\* sequence, and the map of storage_cache from an account to its sub-cache
NewTrieCursorsCaches ==
  [caches |-> <<NewTrieCursorCache>>, account_cache |-> 1, storage_cache |-> EmptyMap]

\* CachedTrieCursorFactory::account_trie_cursor
AccountTrieCursor(caches, miss) ==
  [caches |-> caches,
   cursor |-> NewCachedTrieCursor(NewRealTrieCursor(AccountTrie, miss),
                                  caches.account_cache)]

\* a faulty SubCacheEntry: every account is given the sub-cache made first
SubCacheShared(caches, hashed_address) ==
  IF hashed_address \in DOMAIN caches.storage_cache
  THEN caches
  ELSE IF DOMAIN caches.storage_cache # {}
  THEN [caches EXCEPT !.storage_cache = Insert(@, hashed_address, caches.account_cache + 1)]
  ELSE [caches EXCEPT !.caches = Append(@, NewTrieCursorCache),
                      !.storage_cache = Insert(@, hashed_address, Len(caches.caches) + 1)]

\* storage_cache.entry(hashed_address).or_insert_with(..): the caches after it
SubCacheEntry(caches, hashed_address) ==
  IF hashed_address \in DOMAIN caches.storage_cache
  THEN caches
  ELSE [caches EXCEPT !.caches = Append(@, NewTrieCursorCache),
                      !.storage_cache = Insert(@, hashed_address, Len(caches.caches) + 1)]

\* CachedTrieCursorFactory::storage_tries_cursor
StorageTriesCursor(caches, hashed_address, miss) ==
  LET after == SubCacheEntry(caches, hashed_address)
  IN  [caches |-> after,
       cursor |-> NewCachedTrieCursor(NewRealTrieCursor(hashed_address, miss),
                                      after.storage_cache[hashed_address])]

(***************************************************************************)
(* State.  A decorator is a value of its struct.  The reference cursors,   *)
(* commits and the replay variables are not fields of the program: a       *)
(* reference cursor is an uncached real cursor that is given every call    *)
(* its decorator is given; commits counts, for every slot, the real calls  *)
(* whose result was committed to the cache as the content of that slot;    *)
(* the replay variables record the calls of one decorator so that another  *)
(* can repeat them.                                                        *)
(***************************************************************************)
VARIABLES
  account_cursor_cache,  \* HashedCursorCache.account_cursor_cache
  account_cursors,       \* the CachedHashedAccountCursor of each decorator
  account_reference,     \* per decorator: an uncached cursor given the same calls
  account_log,           \* replay: the calls First has made, with their outcomes
  account_replay         \* replay: the number of calls Second has repeated and
                         \* the number of calls Other has made

account_vars == <<account_cursor_cache, account_cursors, account_reference,
                  account_log, account_replay>>

VARIABLES
  storage_cursor_cache,  \* HashedCursorCache.storage_cursor_cache
  storage_cursors,       \* the CachedHashedStorageCursor of each decorator
  storage_reference,     \* per decorator: an uncached cursor given the same calls
  storage_log,           \* replay: as account_log
  storage_replay         \* replay: as account_replay

storage_vars == <<storage_cursor_cache, storage_cursors, storage_reference,
                  storage_log, storage_replay>>

VARIABLES
  trie_caches,           \* the TrieCursorsCaches of the factories
  trie_cursors,          \* the CachedTrieCursor of each decorator, None before
                         \* a factory has made it
  trie_reference,        \* per decorator: an uncached cursor given the same calls
  trie_miss,             \* where a seek_exact of the real cursors that finds no
                         \* node leaves the cursor
  trie_calls,            \* the number of calls the trie decorators were given
  trie_log,              \* replay: as account_log
  trie_replay,           \* replay: as account_replay
  trie_threads           \* locking: per decorator, the call its thread is in and
                         \* the guards the call holds

trie_vars == <<trie_caches, trie_cursors, trie_reference, trie_miss, trie_calls,
               trie_log, trie_replay, trie_threads>>

VARIABLES
  commits,               \* the bag of slots a real call's result was committed to
  kind,                  \* the cache the behaviour acts on
  faults                 \* the number of calls in which a real call has failed

vars == <<kind, faults, commits, account_vars, storage_vars, trie_vars>>

NewReplay == [n |-> 0, other |-> 0]

\* a thread that is in no call: op is the call, arg its argument, at the place
\* in the lock() calls of op of the one it makes next, holds the guards it holds
ThreadIdle == [op |-> "idle", arg |-> 0, at |-> 0, holds |-> {}]

AccountInit ==
  /\ account_cursor_cache = NewAccountCursorCache
  /\ account_cursors = [d \in Decorators |-> NewCachedHashedAccountCursor]
  /\ account_reference = [d \in Decorators |-> NewTestAccountCursor]
  /\ account_log = <<>>
  /\ account_replay = NewReplay

StorageInit ==
  /\ storage_cursor_cache = NewStorageCursorCache
  /\ storage_cursors = [d \in Decorators |-> NewCachedHashedStorageCursor]
  /\ storage_reference = [d \in Decorators |-> NewTestStorageCursor]
  /\ storage_log = <<>>
  /\ storage_replay = NewReplay

TrieInit ==
  /\ trie_caches = NewTrieCursorsCaches
  /\ trie_cursors = [d \in Decorators |-> None]
  /\ trie_reference = [d \in Decorators |-> None]
  /\ trie_calls = 0
  /\ trie_log = <<>>
  /\ trie_replay = NewReplay
  /\ trie_threads = [d \in Decorators |-> ThreadIdle]
  /\ trie_miss \in (IF kind = "trie" THEN MissModes ELSE {"unpositioned"})

(***************************************************************************)
(* The calls a decorator can be given in a state, and what each does.      *)
(***************************************************************************)
\* the calls decorator d of the account cursors can be given now
AccountCalls(d) ==
  {[op |-> "seek", key |-> k] : k \in AccountKeys}
  \cup {[op |-> "next", key |-> 0] :
          x \in {p \in {account_cursors[d].position} :
                   p.tag # "Uninit" /\ NextTarget(p).index <= MaxIndex}}

\* what call c does when decorator d is given it now
AccountOutcome(d, c) ==
  IF c.op = "seek"
  THEN AccountSeek(account_cursors[d], account_cursor_cache, c.key, 0)
  ELSE AccountNext(account_cursors[d], account_cursor_cache,
                   NextTarget(account_cursors[d].position).key,
                   NextTarget(account_cursors[d].position).index, 0)

\* what the uncached cursor that got d's calls so far does when given call c
AccountReference(d, c) ==
  IF c.op = "seek" THEN TestAccountSeek(account_reference[d], c.key)
  ELSE TestAccountNext(account_reference[d])

\* decorator d is given call c
AccountCall(d, c) ==
  /\ c \in AccountCalls(d)
  /\ account_cursors' = [account_cursors EXCEPT ![d] = AccountOutcome(d, c).self]
  /\ account_cursor_cache' = AccountOutcome(d, c).cache
  /\ account_reference' = [account_reference EXCEPT ![d] = AccountReference(d, c).cursor]
  /\ commits' = commits (+) SetToBag(AccountOutcome(d, c).fills)

\* the calls decorator d of the storage cursors can be given now
StorageCalls(d) ==
  {[op |-> "is_storage_empty", key |-> <<k, k>>] : k \in ProbeKeys}
  \cup {[op |-> "seek", key |-> k] : k \in StorageKeys}
  \cup {[op |-> "next", key |-> <<0, 0>>] :
          x \in {p \in {storage_cursors[d].position} :
                   p.tag # "Uninit" /\ p.index + 1 <= MaxIndex}}

\* what call c does when decorator d is given it now
StorageOutcome(d, c) ==
  IF c.op = "is_storage_empty"
  THEN StorageIsEmpty(storage_cursors[d], storage_cursor_cache, c.key[1], 0)
  ELSE IF c.op = "seek"
  THEN StorageSeek(storage_cursors[d], storage_cursor_cache, c.key, 0)
  ELSE StorageNext(storage_cursors[d], storage_cursor_cache,
                   storage_cursors[d].position.key,
                   storage_cursors[d].position.index + 1, 0)

\* what the uncached cursor that got d's calls so far does when given call c
StorageReference(d, c) ==
  IF c.op = "is_storage_empty"
  THEN [cursor |-> storage_reference[d], val |-> TestIsStorageEmpty(c.key[1])]
  ELSE IF c.op = "seek" THEN TestStorageSeek(storage_reference[d], c.key[1], c.key[2])
  ELSE TestStorageNext(storage_reference[d])

\* decorator d is given call c
StorageCall(d, c) ==
  /\ c \in StorageCalls(d)
  /\ storage_cursors' = [storage_cursors EXCEPT ![d] = StorageOutcome(d, c).self]
  /\ storage_cursor_cache' = StorageOutcome(d, c).cache
  /\ storage_reference' = [storage_reference EXCEPT ![d] = StorageReference(d, c).cursor]
  /\ commits' = commits (+) SetToBag(StorageOutcome(d, c).fills)

\* the calls decorator d of the trie cursors can be given now
TrieCalls(d) ==
  IF IsSome(trie_cursors[d]) /\ trie_calls < MaxTrieCalls
  THEN {[op |-> "seek_exact", key |-> p] : p \in TriePaths}
       \cup {[op |-> "seek", key |-> p] : p \in TriePaths}
       \cup {[op |-> "current", key |-> 0]}
  ELSE {}

\* the TrieCursorCache decorator d shares
TrieCacheOf(d) == trie_caches.caches[Unwrap(trie_cursors[d]).cache]

\* what call c does when decorator d is given it now
TrieOutcome(d, c) ==
  IF c.op = "seek_exact" THEN TrieSeekExact(Unwrap(trie_cursors[d]), TrieCacheOf(d), c.key, 0)
  ELSE IF c.op = "seek" THEN TrieSeek(Unwrap(trie_cursors[d]), TrieCacheOf(d), c.key, 0)
  ELSE TrieCurrent(Unwrap(trie_cursors[d]), TrieCacheOf(d), 0)

\* what the uncached cursor that got d's calls so far does when given call c
TrieReference(d, c) ==
  IF c.op = "seek_exact" THEN RealTrieSeekExact(Unwrap(trie_reference[d]), c.key)
  ELSE IF c.op = "seek" THEN RealTrieSeek(Unwrap(trie_reference[d]), c.key)
  ELSE RealTrieCurrent(Unwrap(trie_reference[d]))

\* decorator d is given call c; the slots it commits to are those of its cache
TrieCall(d, c) ==
  /\ c \in TrieCalls(d)
  /\ trie_cursors' = [trie_cursors EXCEPT ![d] = Some(TrieOutcome(d, c).self)]
  /\ trie_caches' = [trie_caches EXCEPT !.caches[Unwrap(trie_cursors[d]).cache] =
                                          TrieOutcome(d, c).cache]
  /\ trie_reference' = [trie_reference EXCEPT ![d] = Some(TrieReference(d, c).cursor)]
  /\ commits' = commits (+) SetToBag({[f EXCEPT !.index = Unwrap(trie_cursors[d]).cache] :
                                        f \in TrieOutcome(d, c).fills})
  /\ trie_calls' = trie_calls + 1
  /\ UNCHANGED trie_miss

\* a factory makes decorator d for the account trie
TrieAccountCursor(d) ==
  /\ trie_cursors[d] = None
  /\ trie_cursors' = [trie_cursors EXCEPT
                        ![d] = Some(AccountTrieCursor(trie_caches, trie_miss).cursor)]
  /\ trie_caches' = AccountTrieCursor(trie_caches, trie_miss).caches
  /\ trie_reference' = [trie_reference EXCEPT
                          ![d] = Some(NewRealTrieCursor(AccountTrie, trie_miss))]
  /\ UNCHANGED <<trie_miss, trie_calls, commits>>

\* a factory makes decorator d for the storage trie of an account
TrieStorageCursor(d, hashed_address) ==
  /\ trie_cursors[d] = None
  /\ trie_cursors' = [trie_cursors EXCEPT
       ![d] = Some(StorageTriesCursor(trie_caches, hashed_address, trie_miss).cursor)]
  /\ trie_caches' = StorageTriesCursor(trie_caches, hashed_address, trie_miss).caches
  /\ trie_reference' = [trie_reference EXCEPT
                          ![d] = Some(NewRealTrieCursor(hashed_address, trie_miss))]
  /\ UNCHANGED <<trie_miss, trie_calls, commits>>

(***************************************************************************)
(* Actions.                                                                *)
(***************************************************************************)
\* any decorator of Cursors is given any call
AccountStep ==
  /\ \E d \in Cursors : \E c \in AccountCalls(d) : AccountCall(d, c)
  /\ UNCHANGED <<account_log, account_replay>>

StorageStep ==
  /\ \E d \in Cursors : \E c \in StorageCalls(d) : StorageCall(d, c)
  /\ UNCHANGED <<storage_log, storage_replay>>

\* a factory makes a decorator of Cursors, or one of them is given any call
TrieStep ==
  /\ \/ \E d \in Cursors : TrieAccountCursor(d)
     \/ \E d \in Cursors : \E a \in TrieAddresses : TrieStorageCursor(d, a)
     \/ \E d \in Cursors : \E c \in TrieCalls(d) : TrieCall(d, c)
  /\ UNCHANGED <<trie_log, trie_replay, trie_threads>>

\* what a replay logs of a call: the call, its result and the real calls it issued
Logged(c, out, real) == [call |-> c, res |-> out.res, real |-> real]

\* the real calls an outcome of an account or a storage decorator reports
AccountReal(out) == out.seeks + out.nexts
StorageReal(out) == out.seeks + out.nexts + out.probes

\* replay: First is given a call, which is logged with its outcome
AccountFirstCall ==
  /\ Len(account_log) < MaxCalls
  /\ \E c \in AccountCalls(First) :
       /\ AccountCall(First, c)
       /\ account_log' = Append(account_log,
            Logged(c, AccountOutcome(First, c), AccountReal(AccountOutcome(First, c))))
  /\ UNCHANGED account_replay

\* replay: Second is given the next call of the log
AccountSecondCall ==
  /\ account_replay.n < Len(account_log)
  /\ AccountCall(Second, account_log[account_replay.n + 1].call)
  /\ account_replay' = [account_replay EXCEPT !.n = @ + 1]
  /\ UNCHANGED account_log

\* replay: Other is given a call of its own
AccountOtherCall ==
  /\ account_replay.other < MaxOther
  /\ \E c \in AccountCalls(Other) : AccountCall(Other, c)
  /\ account_replay' = [account_replay EXCEPT !.other = @ + 1]
  /\ UNCHANGED account_log

StorageFirstCall ==
  /\ Len(storage_log) < MaxCalls
  /\ \E c \in StorageCalls(First) :
       /\ StorageCall(First, c)
       /\ storage_log' = Append(storage_log,
            Logged(c, StorageOutcome(First, c), StorageReal(StorageOutcome(First, c))))
  /\ UNCHANGED storage_replay

StorageSecondCall ==
  /\ storage_replay.n < Len(storage_log)
  /\ StorageCall(Second, storage_log[storage_replay.n + 1].call)
  /\ storage_replay' = [storage_replay EXCEPT !.n = @ + 1]
  /\ UNCHANGED storage_log

StorageOtherCall ==
  /\ storage_replay.other < MaxOther
  /\ \E c \in StorageCalls(Other) : StorageCall(Other, c)
  /\ storage_replay' = [storage_replay EXCEPT !.other = @ + 1]
  /\ UNCHANGED storage_log

\* the real calls an outcome of a trie decorator reports
TrieReal(out) == out.exacts + out.seeks + out.currents

\* a factory makes decorator d for the trie of scope: the account trie or the
\* storage trie of an account
TrieMake(d, scope) ==
  IF scope = AccountTrie THEN TrieAccountCursor(d) ELSE TrieStorageCursor(d, scope)

\* replay: the factories make First for any trie, Second for the trie of First
\* and Other for any trie
TrieReplayMake ==
  /\ \/ \E scope \in {AccountTrie} \cup TrieAddresses : TrieMake(First, scope)
     \/ /\ IsSome(trie_cursors[First])
        /\ TrieMake(Second, Unwrap(trie_cursors[First]).cursor.scope)
     \/ \E scope \in {AccountTrie} \cup TrieAddresses : TrieMake(Other, scope)
  /\ UNCHANGED <<trie_log, trie_replay, trie_threads>>

\* replay: First is given a call, which is logged with its outcome
TrieFirstCall ==
  /\ Len(trie_log) < MaxCalls
  /\ \E c \in TrieCalls(First) :
       /\ TrieCall(First, c)
       /\ trie_log' = Append(trie_log,
            Logged(c, TrieOutcome(First, c), TrieReal(TrieOutcome(First, c))))
  /\ UNCHANGED <<trie_replay, trie_threads>>

\* replay: Second is given the next call of the log
TrieSecondCall ==
  /\ trie_replay.n < Len(trie_log)
  /\ TrieCall(Second, trie_log[trie_replay.n + 1].call)
  /\ trie_replay' = [trie_replay EXCEPT !.n = @ + 1]
  /\ UNCHANGED <<trie_log, trie_threads>>

\* replay: Other is given a call of its own
TrieOtherCall ==
  /\ trie_replay.other < MaxOther
  /\ \E c \in TrieCalls(Other) : TrieCall(Other, c)
  /\ trie_replay' = [trie_replay EXCEPT !.other = @ + 1]
  /\ UNCHANGED <<trie_log, trie_threads>>

(***************************************************************************)
(* Specifications.  The account cache, the storage cache and the trie      *)
(* caches have no field and no mutex in common, and no decorator uses two  *)
(* of them, so a behaviour over several of them is an interleaving of      *)
(* behaviours over each.  kind names the cache a behaviour acts on.        *)
(***************************************************************************)
Kinds == {"account", "storage", "trie"}

Init ==
  /\ kind \in Kinds
  /\ commits = EmptyBag
  /\ faults = 0
  /\ AccountInit
  /\ StorageInit
  /\ TrieInit

AccountAction ==
  kind = "account" /\ AccountStep /\ UNCHANGED <<kind, faults, storage_vars, trie_vars>>

StorageAction ==
  kind = "storage" /\ StorageStep /\ UNCHANGED <<kind, faults, account_vars, trie_vars>>

TrieAction ==
  kind = "trie" /\ TrieStep /\ UNCHANGED <<kind, faults, account_vars, storage_vars>>

AccountReplayAction ==
  /\ kind = "account"
  /\ AccountFirstCall \/ AccountSecondCall \/ AccountOtherCall
  /\ UNCHANGED <<kind, faults, storage_vars, trie_vars>>

StorageReplayAction ==
  /\ kind = "storage"
  /\ StorageFirstCall \/ StorageSecondCall \/ StorageOtherCall
  /\ UNCHANGED <<kind, faults, account_vars, trie_vars>>

Next == AccountAction \/ StorageAction \/ TrieAction

ReplayNext == AccountReplayAction \/ StorageReplayAction

TrieReplayAction ==
  /\ kind = "trie"
  /\ TrieReplayMake \/ TrieFirstCall \/ TrieSecondCall \/ TrieOtherCall
  /\ UNCHANGED <<kind, faults, account_vars, storage_vars>>

\* the decorators of Cursors are given any calls in any order and interleaving
Spec == Init /\ [][Next]_vars

\* the same, on the account cache, the storage cache or the trie caches alone
InitAccount == Init /\ kind = "account"
InitStorage == Init /\ kind = "storage"
InitTrie == Init /\ kind = "trie"
SpecAccount == InitAccount /\ [][AccountAction]_vars
SpecStorage == InitStorage /\ [][StorageAction]_vars
SpecTrie == InitTrie /\ [][TrieAction]_vars

\* the same, on the account cache and the storage cache
InitLeaf == Init /\ kind \in {"account", "storage"}
LeafNext == AccountAction \/ StorageAction
SpecLeaf == InitLeaf /\ [][LeafNext]_vars

\* First is given up to MaxCalls calls, Second is given the same calls in the
\* same order, each after First has completed it, and Other is given up to
\* MaxOther calls at any time
SpecReplay == InitLeaf /\ [][ReplayNext]_vars

\* the same, on the account cache or the storage cache alone
SpecAccountReplay == InitAccount /\ [][AccountReplayAction]_vars
SpecStorageReplay == InitStorage /\ [][StorageReplayAction]_vars
SpecTrieReplay == InitTrie /\ [][TrieReplayAction]_vars

(***************************************************************************)
(* next() from any position, and calls whose real calls fail.  A call is   *)
(* attempted with the ordinal of its real call that returns a              *)
(* DatabaseError; the operation returns at that call with the ? operator.  *)
(***************************************************************************)
\* a faulty AccountNextOp: a position that is not set is read as Seek of key 0
AccountNextLenient(self, cache, fail) ==
  IF self.position.tag = "Uninit"
  THEN AccountNext(self, cache, 0, 0, fail)
  ELSE AccountNext(self, cache, NextTarget(self.position).key,
                   NextTarget(self.position).index, fail)

\* CachedHashedAccountCursor::next from any position: unreachable!() panics at
\* Uninit, before the position is written and before the cache is locked
AccountNextOp(self, cache, fail) ==
  IF self.position.tag = "Uninit"
  THEN [self |-> self, cache |-> cache, res |-> Fatal, seeks |-> 0, nexts |-> 0,
        fills |-> {}]
  ELSE AccountNext(self, cache, NextTarget(self.position).key,
                   NextTarget(self.position).index, fail)

\* CachedHashedStorageCursor::next from any position
StorageNextOp(self, cache, fail) ==
  IF self.position.tag = "Uninit"
  THEN [self |-> self, cache |-> cache, res |-> Fatal, seeks |-> 0, nexts |-> 0,
        probes |-> 0, fills |-> {}]
  ELSE StorageNext(self, cache, self.position.key, self.position.index + 1, fail)

\* the ordinals of the real calls of one operation that can be made to fail
Fails == 1..MaxFail

\* what call c does when decorator d is given it now and the real call of
\* ordinal fail returns a DatabaseError (none does when fail is 0 or more than
\* the number of real calls the operation issues)
AccountAttempt(d, c, fail) ==
  IF c.op = "seek"
  THEN AccountSeek(account_cursors[d], account_cursor_cache, c.key, fail)
  ELSE AccountNextOp(account_cursors[d], account_cursor_cache, fail)

StorageAttempt(d, c, fail) ==
  IF c.op = "is_storage_empty"
  THEN StorageIsEmpty(storage_cursors[d], storage_cursor_cache, c.key[1], fail)
  ELSE IF c.op = "seek"
  THEN StorageSeek(storage_cursors[d], storage_cursor_cache, c.key, fail)
  ELSE StorageNextOp(storage_cursors[d], storage_cursor_cache, fail)

TrieAttempt(d, c, fail) ==
  IF c.op = "seek_exact"
  THEN TrieSeekExact(Unwrap(trie_cursors[d]), TrieCacheOf(d), c.key, fail)
  ELSE IF c.op = "seek" THEN TrieSeek(Unwrap(trie_cursors[d]), TrieCacheOf(d), c.key, fail)
  ELSE TrieCurrent(Unwrap(trie_cursors[d]), TrieCacheOf(d), fail)

\* decorator d is given call c and a real call of the operation fails: the
\* decorator and the cache are left as the operation has them when it returns
\* the error; the uncached cursor given the same call fails at once
AccountFailedCall(d, c, fail) ==
  /\ c \in AccountCalls(d)
  /\ AccountAttempt(d, c, fail).res = Err
  /\ account_cursors' = [account_cursors EXCEPT ![d] = AccountAttempt(d, c, fail).self]
  /\ account_cursor_cache' = AccountAttempt(d, c, fail).cache
  /\ commits' = commits (+) SetToBag(AccountAttempt(d, c, fail).fills)
  /\ UNCHANGED <<account_reference, account_log, account_replay>>

StorageFailedCall(d, c, fail) ==
  /\ c \in StorageCalls(d)
  /\ StorageAttempt(d, c, fail).res = Err
  /\ storage_cursors' = [storage_cursors EXCEPT ![d] = StorageAttempt(d, c, fail).self]
  /\ storage_cursor_cache' = StorageAttempt(d, c, fail).cache
  /\ commits' = commits (+) SetToBag(StorageAttempt(d, c, fail).fills)
  /\ UNCHANGED <<storage_reference, storage_log, storage_replay>>

TrieFailedCall(d, c, fail) ==
  /\ c \in TrieCalls(d)
  /\ TrieAttempt(d, c, fail).res = Err
  /\ trie_cursors' = [trie_cursors EXCEPT ![d] = Some(TrieAttempt(d, c, fail).self)]
  /\ trie_caches' = [trie_caches EXCEPT !.caches[Unwrap(trie_cursors[d]).cache] =
                                          TrieAttempt(d, c, fail).cache]
  /\ commits' = commits (+) SetToBag({[f EXCEPT !.index = Unwrap(trie_cursors[d]).cache] :
                                        f \in TrieAttempt(d, c, fail).fills})
  /\ trie_calls' = trie_calls + 1
  /\ UNCHANGED <<trie_reference, trie_miss, trie_log, trie_replay>>

AccountFaultAction ==
  /\ kind = "account"
  /\ faults < MaxFaults
  /\ faults' = faults + 1
  /\ \E c \in AccountCalls(First) : \E f \in Fails : AccountFailedCall(First, c, f)
  /\ UNCHANGED <<kind, storage_vars, trie_vars>>

StorageFaultAction ==
  /\ kind = "storage"
  /\ faults < MaxFaults
  /\ faults' = faults + 1
  /\ \E c \in StorageCalls(First) : \E f \in Fails : StorageFailedCall(First, c, f)
  /\ UNCHANGED <<kind, account_vars, trie_vars>>

TrieFaultAction ==
  /\ kind = "trie"
  /\ faults < MaxFaults
  /\ faults' = faults + 1
  /\ \E c \in TrieCalls(First) : \E f \in Fails : TrieFailedCall(First, c, f)
  /\ UNCHANGED <<kind, account_vars, storage_vars, trie_threads>>

\* the decorators are given any calls, and a real call of up to MaxFaults calls
\* fails; the decorators of Cursors start alike and are given the same calls, so
\* the decorator whose call fails is taken to be First
\* the specifications are per cache
AccountFaultNext == AccountAction \/ AccountFaultAction
SpecAccountFaults == InitAccount /\ [][AccountFaultNext]_vars

StorageFaultNext == StorageAction \/ StorageFaultAction
SpecStorageFaults == InitStorage /\ [][StorageFaultNext]_vars

TrieFaultNext == TrieAction \/ TrieFaultAction
SpecTrieFaults == InitTrie /\ [][TrieFaultNext]_vars

(***************************************************************************)
(* Locking of the trie caches.  Every thread has one decorator and is in   *)
(* at most one call.  A call makes its lock() calls in program order; a    *)
(* guard lives until the call returns, by a value, an error or a panic.    *)
(* The tables of a cache are read and written under its guard only, so the *)
(* effect of a call on them is taken at its return.                        *)
(***************************************************************************)
\* the mutex of TrieCursorsCaches.storage_cache; the mutex of a TrieCursorCache
\* is told by the place of the cache in trie_caches.caches
StorageCacheMutex == 0

\* the lock() calls of CachedTrieCursorFactory::account_trie_cursor
AccountTrieCursorLocks == <<>>

\* the lock() calls of CachedTrieCursorFactory::storage_tries_cursor
StorageTriesCursorLocks == <<StorageCacheMutex>>

\* a faulty TrieCursorLocks: the call goes on to the map of the sub-caches
TrieCursorLocksNested(self) == <<self.cache, StorageCacheMutex>>

\* the lock() calls of seek_exact, seek and current of a CachedTrieCursor
TrieCursorLocks(self) == <<self.cache>>

FactoryOps == {"account_trie_cursor", "storage_tries_cursor"}

\* the lock() calls of the call the thread of decorator d is in
ThreadLocks(d) ==
  IF trie_threads[d].op = "account_trie_cursor" THEN AccountTrieCursorLocks
  ELSE IF trie_threads[d].op = "storage_tries_cursor" THEN StorageTriesCursorLocks
  ELSE TrieCursorLocks(Unwrap(trie_cursors[d]))

\* the mutexes some thread holds a guard of
HeldMutexes == UNION {trie_threads[d].holds : d \in Decorators}

\* the threads that are in a call of a decorator
ThreadsInCall == {d \in Decorators : trie_threads[d].op \notin FactoryOps \cup {"idle"}}

\* the thread of decorator d enters a call: of a factory when it has no
\* decorator yet, else of its decorator
ThreadBegin(d) ==
  /\ trie_threads[d] = ThreadIdle
  /\ \/ /\ trie_cursors[d] = None
        /\ \E a \in {AccountTrie} \cup TrieAddresses :
             trie_threads' = [trie_threads EXCEPT ![d] =
                [op |-> IF a = AccountTrie THEN "account_trie_cursor"
                        ELSE "storage_tries_cursor",
                 arg |-> a, at |-> 1, holds |-> {}]]
     \/ /\ trie_calls + Cardinality(ThreadsInCall) < MaxLockCalls
        /\ \E c \in TrieCalls(d) :
             trie_threads' = [trie_threads EXCEPT ![d] =
                [op |-> c.op, arg |-> c.key, at |-> 1, holds |-> {}]]
  /\ UNCHANGED <<trie_caches, trie_cursors, trie_reference, trie_miss, trie_calls,
                 trie_log, trie_replay, commits, faults>>

\* Mutex::lock returns to the thread of decorator d: the mutex is held by no
\* thread (a thread that holds it itself is not given it either)
ThreadLock(d) ==
  /\ trie_threads[d].op # "idle"
  /\ trie_threads[d].at <= Len(ThreadLocks(d))
  /\ ThreadLocks(d)[trie_threads[d].at] \notin HeldMutexes
  /\ trie_threads' = [trie_threads EXCEPT
                        ![d].holds = @ \cup {ThreadLocks(d)[trie_threads[d].at]},
                        ![d].at = @ + 1]
  /\ UNCHANGED <<trie_caches, trie_cursors, trie_reference, trie_miss, trie_calls,
                 trie_log, trie_replay, commits, faults>>

\* the call of the thread of decorator d returns, with a value or with the
\* error of a real call, and its guards are dropped
ThreadReturn(d) ==
  /\ trie_threads[d].op # "idle"
  /\ trie_threads[d].at = Len(ThreadLocks(d)) + 1
  /\ trie_threads' = [trie_threads EXCEPT ![d] = ThreadIdle]
  /\ \/ /\ trie_threads[d].op \in FactoryOps
        /\ TrieMake(d, trie_threads[d].arg)
        /\ UNCHANGED faults
     \/ /\ trie_threads[d].op \notin FactoryOps
        /\ TrieCall(d, [op |-> trie_threads[d].op, key |-> trie_threads[d].arg])
        /\ UNCHANGED faults
     \/ /\ trie_threads[d].op \notin FactoryOps
        /\ d = First
        /\ faults < MaxFaults
        /\ faults' = faults + 1
        /\ \E f \in Fails :
             TrieFailedCall(d, [op |-> trie_threads[d].op, key |-> trie_threads[d].arg], f)
  /\ UNCHANGED <<trie_log, trie_replay>>

TrieLockAction ==
  /\ kind = "trie"
  /\ \E d \in Decorators : ThreadBegin(d) \/ ThreadLock(d) \/ ThreadReturn(d)
  /\ UNCHANGED <<kind, account_vars, storage_vars>>

\* the threads of all decorators make factory calls and decorator calls
SpecTrieLocks == InitTrie /\ [][TrieLockAction]_vars

(***************************************************************************)
(* HashedCursorCache::size.  The guard of account_cursor_cache is bound by *)
(* a let; the two guards of storage_cursor_cache are temporaries of the    *)
(* one tail expression of the body, so each lives until the body ends.     *)
(***************************************************************************)
\* the mutexes size() locks, in the order it locks them
SizeLocks == <<"account_cursor_cache", "storage_cursor_cache", "storage_cursor_cache">>

\* Mutex::lock by the thread that holds the mutex does not return; what it does
\* instead is left open by std: it blocks for ever or it panics
RelockOutcomes == {"deadlock", "panic"}

\* .iter().map(|(_, v)| v.values.len()).sum::<usize>() over a map of sequences
RECURSIVE SumValues(_)
SumValues(m) ==
  IF DOMAIN m = {} THEN 0
  ELSE LET k == CHOOSE x \in DOMAIN m : TRUE
       IN  Len(m[k].values) + SumValues([x \in DOMAIN m \ {k} |-> m[x]])

\* HashedCursorCache::size called by a thread that holds none of the mutexes;
\* relock is what a second lock of a held mutex does
Size(account_cache, storage_cache, relock) ==
  IF \E i, j \in 1..Len(SizeLocks) : i < j /\ SizeLocks[i] = SizeLocks[j]
  THEN [returns |-> FALSE, fault |-> relock]
  ELSE [returns |-> TRUE,
        val |-> Cardinality(DOMAIN account_cache.seek_cache)
                  + SumValues(account_cache.next_cache)
                  + SumValues(storage_cache.seek_cache)
                  + Cardinality(DOMAIN storage_cache.empty_storage)]

(***************************************************************************)
(* The fatal fault of next() of a leaf decorator and the mutex of its      *)
(* cache.  A std mutex is poisoned when a thread panics while it holds its *)
(* guard; the unwinding drops the guard; lock().unwrap() on a poisoned     *)
(* mutex panics.                                                           *)
(***************************************************************************)
\* a faulty LeafNextSteps: the cache is locked first
LeafNextStepsLockFirst == <<"lock", "match_position", "write_position", "lookup">>

\* the steps of next() of a leaf decorator up to its cache lookup, in program
\* order: the match on the position with the unreachable!() of its Uninit arm,
\* the write of the position, the lock() of the cache, the lookup
LeafNextSteps == <<"match_position", "write_position", "lock", "lookup">>

\* the guard of the cache is held when the step is made
GuardHeldAt(steps, step) ==
  \E i, j \in 1..Len(steps) : i < j /\ steps[i] = "lock" /\ steps[j] = step

\* the mutex of the cache after the panic of the Uninit arm has unwound
NextFaultMutex(steps) ==
  [held |-> FALSE, poisoned |-> GuardHeldAt(steps, "match_position")]

\* what an account decorator does with call c on a cache whose mutex is mutex
AccountLocked(self, cache, mutex, c) ==
  IF mutex.poisoned /\ ~(c.op = "next" /\ self.position.tag = "Uninit")
  THEN [self |-> IF c.op = "seek" THEN [self EXCEPT !.position = AccountSeekPos(c.key)]
                 ELSE [self EXCEPT !.position =
                         AccountNextPos(NextTarget(self.position).key,
                                        NextTarget(self.position).index)],
        cache |-> cache, res |-> Fatal, seeks |-> 0, nexts |-> 0, fills |-> {}]
  ELSE IF c.op = "seek" THEN AccountSeek(self, cache, c.key, 0)
  ELSE AccountNextOp(self, cache, 0)

\* what a storage decorator does with call c on a cache whose mutex is mutex
StorageLocked(self, cache, mutex, c) ==
  IF mutex.poisoned /\ ~(c.op = "next" /\ self.position.tag = "Uninit")
  THEN [self |-> IF c.op = "next"
                 THEN [self EXCEPT !.position =
                         StorageSeekPos(self.position.key, self.position.index + 1)]
                 ELSE self,
        cache |-> cache, res |-> Fatal, seeks |-> 0, nexts |-> 0, probes |-> 0,
        fills |-> {}]
  ELSE IF c.op = "is_storage_empty" THEN StorageIsEmpty(self, cache, c.key[1], 0)
  ELSE IF c.op = "seek" THEN StorageSeek(self, cache, c.key, 0)
  ELSE StorageNextOp(self, cache, 0)

(***************************************************************************)
(* Properties.  A property about the calls of a decorator is stated on the *)
(* calls it can be given in a state: what holds of every call that can be  *)
(* given in every reachable state holds of every call of every behaviour.  *)
(***************************************************************************)

\* C1: every result an account decorator returns is the result the uncached
\* cursor returns for the same call after the same calls, whatever the other
\* decorators have put into the shared cache.
C1_AccountTransparency ==
  \A d \in Cursors : \A c \in AccountCalls(d) :
    AccountOutcome(d, c).res = Ok(AccountReference(d, c).val)

\* a decorator has answered next() with an entry while its real cursor is not
\* where the uncached cursor is
C1_Witness ==
  \E d \in Cursors :
    /\ account_cursors[d].position.tag = "Next"
    /\ IsSome(account_cursors[d].last_value)
    /\ account_cursors[d].cursor # account_reference[d]
    /\ \E e \in Cursors \ {d} : account_cursors[e].cursor # NewTestAccountCursor

\* C2: every result a storage decorator returns for seek and next is the result
\* the uncached storage cursor returns for the same call after the same calls.
C2_StorageTransparency ==
  \A d \in Cursors : \A c \in StorageCalls(d) :
    c.op # "is_storage_empty" =>
      StorageOutcome(d, c).res = Ok(StorageReference(d, c).val)

\* C4: when Second repeats the calls First has completed, each call returns
\* what it returned to First and issues no real seek and no real next.
C4_AccountReplay ==
  account_replay.n < Len(account_log) =>
    LET e == account_log[account_replay.n + 1]
        o == AccountOutcome(Second, e.call)
    IN  o.res = e.res /\ o.seeks = 0 /\ o.nexts = 0

\* Second has repeated MaxCalls calls of First, for some of which First issued
\* real seeks and real nexts, and its real cursor was never used
C4_Witness ==
  /\ account_replay.n = MaxCalls
  /\ account_cursors[Second].cursor = NewTestAccountCursor
  /\ account_cursors[Second].underlying_cursor_last_key = None
  /\ \E i, j \in 1..Len(account_log) :
       /\ account_log[i].call.op = "seek" /\ account_log[i].real > 0
       /\ account_log[j].call.op = "next" /\ account_log[j].real > 1

\* C5: when Second repeats the is_storage_empty, seek and next calls First has
\* completed, and no other decorator has used the cache, each call returns what
\* it returned to First and issues no real seek, no real next and no real
\* is_storage_empty.
C5_StorageReplay ==
  (storage_replay.other = 0 /\ storage_replay.n < Len(storage_log)) =>
    LET e == storage_log[storage_replay.n + 1]
        o == StorageOutcome(Second, e.call)
    IN  o.res = e.res /\ o.seeks = 0 /\ o.nexts = 0 /\ o.probes = 0

\* a sequence entry has a termination marker N and the index is N or more
AtOrBeyondMarker(entry, index) ==
  \E N \in 0..index : entry.terminated_size = Some(N)

\* the next() of an account decorator asks for an index at or beyond the
\* termination marker of its sequence
AccountAtEnd(d) ==
  /\ account_cursors[d].position.tag # "Uninit"
  /\ NextTarget(account_cursors[d].position).key \in DOMAIN account_cursor_cache.next_cache
  /\ AtOrBeyondMarker(
       account_cursor_cache.next_cache[NextTarget(account_cursors[d].position).key],
       NextTarget(account_cursors[d].position).index)

\* the same of a storage decorator
StorageAtEnd(d) ==
  /\ storage_cursors[d].position.tag # "Uninit"
  /\ storage_cursors[d].position.key \in DOMAIN storage_cursor_cache.seek_cache
  /\ AtOrBeyondMarker(storage_cursor_cache.seek_cache[storage_cursors[d].position.key],
                      storage_cursors[d].position.index + 1)

\* a step leaves every termination marker that is set as it is
MarkersKept ==
  /\ \A k \in DOMAIN account_cursor_cache.next_cache :
       IsSome(account_cursor_cache.next_cache[k].terminated_size) =>
         account_cursor_cache'.next_cache[k].terminated_size =
           account_cursor_cache.next_cache[k].terminated_size
  /\ \A k \in DOMAIN storage_cursor_cache.seek_cache :
       IsSome(storage_cursor_cache.seek_cache[k].terminated_size) =>
         storage_cursor_cache'.seek_cache[k].terminated_size =
           storage_cursor_cache.seek_cache[k].terminated_size

\* every next() at or beyond the termination marker of its sequence returns
\* absence and issues no real call
MarkerAnswers ==
  /\ \A d \in Cursors :
       AccountAtEnd(d) =>
         LET o == AccountOutcome(d, [op |-> "next", key |-> 0])
         IN  o.res = Ok(None) /\ o.seeks = 0 /\ o.nexts = 0
  /\ \A d \in Cursors :
       StorageAtEnd(d) =>
         LET o == StorageOutcome(d, [op |-> "next", key |-> <<0, 0>>])
         IN  o.res = Ok(None) /\ o.seeks = 0 /\ o.nexts = 0

\* C7: a termination marker that is set is never changed, and every next() at
\* an index at or beyond it, by any decorator sharing the cache, returns absence
\* and issues no real seek and no real next.
C7_TerminationStability == [](MarkerAnswers) /\ [][MarkersKept]_vars

\* a decorator whose real cursor was never used is beyond the termination
\* marker of a sequence that holds entries: the marker has answered its next()
C7_Witness ==
  \/ \E d \in Cursors :
       /\ AccountAtEnd(d)
       /\ account_cursors[d].position.tag = "Next"
       /\ account_cursors[d].position.index >
            Unwrap(account_cursor_cache.next_cache[account_cursors[d].position.key]
                     .terminated_size)
       /\ account_cursors[d].position.index > 1
       /\ account_cursors[d].last_value = None
       /\ account_cursors[d].cursor = NewTestAccountCursor
  \/ \E d \in Cursors :
       /\ StorageAtEnd(d)
       /\ storage_cursors[d].position.index >
            Unwrap(storage_cursor_cache.seek_cache[storage_cursors[d].position.key]
                     .terminated_size)
       /\ storage_cursors[d].position.index > 1
       /\ storage_cursors[d].cursor_pos = StorageUninit

\* in a log, every pass seek(K1), n next(), seek(K2), seek(K1), next()... returns
\* in its second part the results of its first part, without a real call
PassReplayed(log) ==
  \A s \in 1..Len(log) : \A n \in 0..Len(log) :
    LET t == s + n + 2
    IN  ( /\ t <= Len(log)
          /\ log[s].call.op = "seek"
          /\ \A i \in 1..n : log[s + i].call.op = "next"
          /\ log[s + n + 1].call.op = "seek"
          /\ log[s + n + 1].call.key # log[s].call.key
          /\ log[t].call = log[s].call )
        => \A j \in 0..n :
             (t + j <= Len(log) /\ \A i \in 1..j : log[t + i].call.op = "next")
               => log[t + j].res = log[s + j].res /\ log[t + j].real = 0

\* C8: on an account or storage decorator, after seek(K1), n next() calls and
\* seek(K2), a further seek(K1) and the same next() calls return the results of
\* the first pass and issue no real call.
C8_ReplayAcrossSeeks == PassReplayed(account_log) /\ PassReplayed(storage_log)

\* the part of C8 about the account decorator
C8_AccountPart == PassReplayed(account_log)

\* C3: every result a trie decorator returns for seek_exact, seek and current
\* (current after a seek or a seek_exact) is the result the uncached real cursor
\* returns for the same call after the same calls.
C3_TrieTransparency ==
  \A d \in Cursors : \A c \in TrieCalls(d) :
    (c.op = "current" => Unwrap(trie_cursors[d]).last_seek # SeekArgsNone) =>
      TrieOutcome(d, c).res = Ok(TrieReference(d, c).val)

\* the slots C6 speaks of: all but those of the current table
SlotTables == {"seek_cache", "next_cache", "empty_storage", "seek", "seek_exact"}

\* C6: for every slot of a cache, the real call whose result is the content of
\* that slot completes and is committed at most once, over all decorators
\* sharing the cache.
C6_AtMostOnce ==
  \A slot \in BagToSet(commits) :
    slot.table \in SlotTables => CopiesIn(slot, commits) <= 1

\* the decorators made for storage tries
StorageTrieCursors ==
  {d \in Cursors : IsSome(trie_cursors[d]) /\ Unwrap(trie_cursors[d]).cursor.scope # AccountTrie}

\* the sub-cache of a storage trie decorator is that of its account in the map;
\* two accounts have two sub-caches, and none is the cache of the account trie
SubCachesApart ==
  /\ \A d \in StorageTrieCursors :
       /\ Unwrap(trie_cursors[d]).cursor.scope \in DOMAIN trie_caches.storage_cache
       /\ Unwrap(trie_cursors[d]).cache =
            trie_caches.storage_cache[Unwrap(trie_cursors[d]).cursor.scope]
  /\ \A a \in DOMAIN trie_caches.storage_cache :
       /\ trie_caches.storage_cache[a] # trie_caches.account_cache
       /\ trie_caches.storage_cache[a] \in 1..Len(trie_caches.caches)
       /\ \A b \in DOMAIN trie_caches.storage_cache :
            trie_caches.storage_cache[a] = trie_caches.storage_cache[b] => a = b

\* a step keeps the sub-cache of every account in the map, and changes its tables
\* only as a call of a decorator for that account changes them
SubCachesFramed ==
  \A a \in DOMAIN trie_caches.storage_cache :
    /\ a \in DOMAIN trie_caches'.storage_cache
    /\ trie_caches'.storage_cache[a] = trie_caches.storage_cache[a]
    /\ trie_caches'.caches[trie_caches.storage_cache[a]] #
         trie_caches.caches[trie_caches.storage_cache[a]]
       => \E d \in StorageTrieCursors :
            /\ Unwrap(trie_cursors[d]).cursor.scope = a
            /\ \E c \in TrieCalls(d) :
                 trie_caches'.caches[trie_caches.storage_cache[a]] = TrieOutcome(d, c).cache

\* C9: the sub-cache of a storage trie decorator is determined by its account
\* alone: decorators for one account share the sub-cache made on first access,
\* decorators for two accounts use two sub-caches, and the tables of the
\* sub-cache of an account change only by a call of a decorator for that account.
C9_SubCacheIndependence == [](SubCachesApart) /\ [][SubCachesFramed]_vars

\* two decorators for two accounts have each filled the sub-cache of their
\* account
C9_Witness ==
  \E d, e \in StorageTrieCursors :
    /\ Unwrap(trie_cursors[d]).cursor.scope # Unwrap(trie_cursors[e]).cursor.scope
    /\ DOMAIN TrieCacheOf(d).seek # {}
    /\ DOMAIN TrieCacheOf(e).seek_exact # {}
    /\ TrieCacheOf(d) # TrieCacheOf(e)

\* C10: current() on a trie decorator that was given no seek and no seek_exact
\* is a fatal fault: it returns nothing, issues no real current() and writes no
\* entry to the current table.
C10_CurrentBeforeSeekFatal ==
  \A d \in Cursors :
    (IsSome(trie_cursors[d]) /\ Unwrap(trie_cursors[d]).last_seek = SeekArgsNone) =>
      LET o == TrieCurrent(Unwrap(trie_cursors[d]), TrieCacheOf(d), 0)
      IN  o.res = Fatal /\ o.currents = 0 /\ o.cache.current = TrieCacheOf(d).current

\* C11: next() on an account or storage decorator whose position is Uninit is a
\* fatal fault: it returns no result, issues no real call and leaves the shared
\* cache as it is, whatever the cache holds.
C11_NextBeforeSeekFatal ==
  /\ \A d \in Cursors :
       account_cursors[d].position = AccountUninit =>
         LET o == AccountNextOp(account_cursors[d], account_cursor_cache, 0)
         IN  /\ o.res = Fatal /\ o.seeks = 0 /\ o.nexts = 0
             /\ o.cache = account_cursor_cache /\ o.self = account_cursors[d]
  /\ \A d \in Cursors :
       storage_cursors[d].position = StorageUninit =>
         LET o == StorageNextOp(storage_cursors[d], storage_cursor_cache, 0)
         IN  /\ o.res = Fatal /\ o.seeks = 0 /\ o.nexts = 0 /\ o.probes = 0
             /\ o.cache = storage_cursor_cache /\ o.self = storage_cursors[d]

\* a decorator that was given no seek is given next() on a cache in which
\* another decorator has recorded a sequence: the call ends in the fault
C11_Witness ==
  \E d \in Cursors :
    /\ account_cursors[d].position = AccountUninit
    /\ \E k \in DOMAIN account_cursor_cache.next_cache :
         Len(account_cursor_cache.next_cache[k].values) > 0
    /\ AccountNextOp(account_cursors[d], account_cursor_cache, 0).res = Fatal

\* the shared cache tables are as they were
CachesUnchanged ==
  /\ account_cursor_cache' = account_cursor_cache
  /\ storage_cursor_cache' = storage_cursor_cache
  /\ trie_caches' = trie_caches

\* C12: when a real call made inside an operation of a decorator fails, every
\* shared cache table is as it was before the operation started: no key added,
\* no value appended, no termination marker set.
C12_NoCacheMutationOnError == [][faults' # faults => CachesUnchanged]_vars

\* the number of values of the sequences of a table
RECURSIVE ValuesIn(_, _)
ValuesIn(table, keys) ==
  IF keys = {} THEN 0
  ELSE LET k == CHOOSE x \in keys : TRUE
       IN  Len(table[k].values) + ValuesIn(table, keys \ {k})

\* C13: in every reachable cache state size() returns the number of account
\* seek entries plus the number of account sequence values plus the number of
\* storage sequence values plus the number of empty-storage flags.
C13_SizeReportsTotal ==
  \A relock \in RelockOutcomes :
    LET r == Size(account_cursor_cache, storage_cursor_cache, relock)
    IN  /\ r.returns
        /\ r.val = Cardinality(DOMAIN account_cursor_cache.seek_cache)
                     + ValuesIn(account_cursor_cache.next_cache,
                                DOMAIN account_cursor_cache.next_cache)
                     + ValuesIn(storage_cursor_cache.seek_cache,
                                DOMAIN storage_cursor_cache.seek_cache)
                     + Cardinality(DOMAIN storage_cursor_cache.empty_storage)

\* C14: in every reachable state of a shared storage cache, for each key
\* (account, subkey), values[0] is the entry a real seek of the key lands on and
\* values[i] is its i-th successor in the data: no entry twice, none skipped.
C14_StorageSequence ==
  \A k \in DOMAIN storage_cursor_cache.seek_cache :
    LET values == storage_cursor_cache.seek_cache[k].values
        at     == TestStorageSeek(NewTestStorageCursor, k[1], k[2]).cursor.idx
    IN  \A i \in 1..Len(values) :
          /\ at + i <= Len(storage_data)
          /\ values[i] = storage_data[at + i][3]

EntriesKept(old, new) ==
  \A k \in DOMAIN old : k \in DOMAIN new /\ new[k] = old[k]

\* every sequence of a table is kept, its values only appended to and its
\* termination marker, once set, left as it is
SequencesGrow(old, new) ==
  \A k \in DOMAIN old :
    /\ k \in DOMAIN new
    /\ Len(new[k].values) >= Len(old[k].values)
    /\ \A i \in 1..Len(old[k].values) : new[k].values[i] = old[k].values[i]
    /\ IsSome(old[k].terminated_size) => new[k].terminated_size = old[k].terminated_size

AccountCacheGrows(old, new) ==
  EntriesKept(old.seek_cache, new.seek_cache) /\ SequencesGrow(old.next_cache, new.next_cache)

StorageCacheGrows(old, new) ==
  /\ EntriesKept(old.empty_storage, new.empty_storage)
  /\ SequencesGrow(old.seek_cache, new.seek_cache)

TrieCacheGrows(old, new) ==
  /\ EntriesKept(old.seek, new.seek)
  /\ EntriesKept(old.seek_exact, new.seek_exact)
  /\ EntriesKept(old.current, new.current)

\* a step only grows the caches
StepGrows ==
  /\ AccountCacheGrows(account_cursor_cache, account_cursor_cache')
  /\ StorageCacheGrows(storage_cursor_cache, storage_cursor_cache')
  /\ EntriesKept(trie_caches.storage_cache, trie_caches'.storage_cache)
  /\ \A i \in 1..Len(trie_caches.caches) :
       i <= Len(trie_caches'.caches)
       /\ TrieCacheGrows(trie_caches.caches[i], trie_caches'.caches[i])

\* every call, whether its real calls succeed or one of them fails, only grows
\* the cache it is given
AttemptGrows ==
  \A f \in {0} \cup Fails :
    /\ \A d \in Cursors : \A c \in AccountCalls(d) :
         AccountCacheGrows(account_cursor_cache, AccountAttempt(d, c, f).cache)
    /\ \A d \in Cursors : \A c \in StorageCalls(d) :
         StorageCacheGrows(storage_cursor_cache, StorageAttempt(d, c, f).cache)
    /\ \A d \in Cursors : \A c \in TrieCalls(d) :
         TrieCacheGrows(TrieCacheOf(d), TrieAttempt(d, c, f).cache)

\* C16: under any operations by any decorators, an entry of a seek, seek_exact,
\* current or empty-flag table, once written, is never changed or removed, the
\* values of a sequence only grow by appending, and a termination marker, once
\* set, is never changed or cleared.
C16_MonotonicGrowth == [](AttemptGrows) /\ [][StepGrows]_vars

\* a storage sequence that was appended to holds its termination marker, or a
\* trie cache holds an entry in each of its tables
C16_Witness ==
  \/ \E k \in DOMAIN storage_cursor_cache.seek_cache :
       /\ Len(storage_cursor_cache.seek_cache[k].values) >= 2
       /\ IsSome(storage_cursor_cache.seek_cache[k].terminated_size)
       /\ DOMAIN storage_cursor_cache.empty_storage # {}
  \/ \E i \in 1..Len(trie_caches.caches) :
       /\ DOMAIN trie_caches.caches[i].seek # {}
       /\ DOMAIN trie_caches.caches[i].seek_exact # {}
       /\ DOMAIN trie_caches.caches[i].current # {}

\* the real calls one account decorator issues when it is given the calls of a
\* log from the i-th on, starting as self on the cache, and whether none of the
\* calls is answered without a real call
RECURSIVE AccountTotals(_, _, _, _)
AccountTotals(log, i, self, cache) ==
  IF i > Len(log) THEN [seeks |-> 0, nexts |-> 0, fresh |-> TRUE]
  ELSE LET o    == IF log[i].call.op = "seek"
                   THEN AccountSeek(self, cache, log[i].call.key, 0)
                   ELSE AccountNextOp(self, cache, 0)
           rest == AccountTotals(log, i + 1, o.self, o.cache)
       IN  [seeks |-> o.seeks + rest.seeks, nexts |-> o.nexts + rest.nexts,
            fresh |-> o.seeks + o.nexts > 0 /\ rest.fresh]

\* the same of one storage decorator
RECURSIVE StorageTotals(_, _, _, _)
StorageTotals(log, i, self, cache) ==
  IF i > Len(log) THEN [seeks |-> 0, nexts |-> 0, probes |-> 0, fresh |-> TRUE]
  ELSE LET o    == IF log[i].call.op = "is_storage_empty"
                   THEN StorageIsEmpty(self, cache, log[i].call.key[1], 0)
                   ELSE IF log[i].call.op = "seek"
                   THEN StorageSeek(self, cache, log[i].call.key, 0)
                   ELSE StorageNextOp(self, cache, 0)
           rest == StorageTotals(log, i + 1, o.self, o.cache)
       IN  [seeks |-> o.seeks + rest.seeks, nexts |-> o.nexts + rest.nexts,
            probes |-> o.probes + rest.probes,
            fresh |-> o.seeks + o.nexts + o.probes > 0 /\ rest.fresh]

\* the real calls the uncached cursor issues for the calls of a log: one per call
CallsOf(log, op) == Cardinality({i \in 1..Len(log) : log[i].call.op = op})

\* one account decorator on an empty cache issues no more real calls than the
\* uncached cursor
AccountNoMoreWork ==
  LET t == AccountTotals(account_log, 1, NewCachedHashedAccountCursor, NewAccountCursorCache)
  IN  /\ t.seeks <= CallsOf(account_log, "seek")
      /\ t.nexts <= CallsOf(account_log, "next")
      /\ t.fresh =>
           /\ t.seeks = CallsOf(account_log, "seek")
           /\ t.nexts = CallsOf(account_log, "next")

\* the same of one storage decorator
StorageNoMoreWork ==
  LET t == StorageTotals(storage_log, 1, NewCachedHashedStorageCursor, NewStorageCursorCache)
  IN  /\ t.seeks <= CallsOf(storage_log, "seek")
      /\ t.nexts <= CallsOf(storage_log, "next")
      /\ t.probes <= CallsOf(storage_log, "is_storage_empty")
      /\ t.fresh =>
           /\ t.seeks = CallsOf(storage_log, "seek")
           /\ t.nexts = CallsOf(storage_log, "next")
           /\ t.probes = CallsOf(storage_log, "is_storage_empty")

\* C17: for any call sequence, one account or storage decorator on an empty
\* cache issues no more real seeks, real nexts and real probes than the
\* uncached cursor issues for the same calls, and as many when no call is
\* answered from the cache.
C17_NoAddedRealWork == AccountNoMoreWork /\ StorageNoMoreWork

\* the sequence of a key in the account cache, empty when the key has none
AccountSequenceOf(k) ==
  IF k \in DOMAIN account_cursor_cache.next_cache
  THEN account_cursor_cache.next_cache[k]
  ELSE NewNextEntry

\* the next() of decorator d is answered by a cached value or by the
\* termination marker
AccountAnswered(d) ==
  LET t == NextTarget(account_cursors[d].position)
  IN  \/ t.index < Len(AccountSequenceOf(t.key).values)
      \/ AtOrBeyondMarker(AccountSequenceOf(t.key), t.index)

\* the real cursor of decorator d is not known to sit on the last cached value
\* of the sequence its next() is on, or on the seek key when the sequence is empty
AccountBehind(d) ==
  LET t      == NextTarget(account_cursors[d].position)
      values == AccountSequenceOf(t.key).values
  IN  account_cursors[d].underlying_cursor_last_key #
        Some(IF Len(values) > 0 THEN values[Len(values)][1] ELSE t.key)

\* C18: an account seek() issues at most one real seek and no real next, and
\* none when the key is in the seek table; an account next() issues at most one
\* real seek and at most one real next: none when a cached value or the
\* termination marker answers it, else one real next, preceded by one real seek
\* exactly when the real cursor is not known to sit on the last cached value of
\* the sequence (or on the seek key when the sequence is empty).
C18_AccountRealCallBound ==
  \A d \in Cursors : \A c \in AccountCalls(d) :
    /\ \A f \in {0} \cup Fails :
         /\ AccountAttempt(d, c, f).seeks <= 1
         /\ AccountAttempt(d, c, f).nexts <= (IF c.op = "seek" THEN 0 ELSE 1)
    /\ LET o == AccountAttempt(d, c, 0)
       IN  IF c.op = "seek"
           THEN c.key \in DOMAIN account_cursor_cache.seek_cache => o.seeks = 0
           ELSE IF AccountAnswered(d)
           THEN o.seeks = 0 /\ o.nexts = 0
           ELSE o.nexts = 1 /\ (o.seeks = 1 <=> AccountBehind(d))

\* a decorator that has taken a sequence on from another decorator, with the
\* catch-up seek, is now on the last cached value and can go on without one
C18_Witness ==
  \E d \in Cursors :
    /\ account_cursors[d].position.tag = "Next"
    /\ IsSome(account_cursors[d].last_value)
    /\ ~AccountAnswered(d)
    /\ ~AccountBehind(d)
    /\ account_cursors[d].position.key # Unwrap(account_cursors[d].last_value)[1]
    /\ \E e \in Cursors \ {d} :
         /\ account_cursors[e].position.tag # "Uninit"
         /\ account_cursors[e].position.key = account_cursors[d].position.key
         /\ AccountBehind(e)

\* position q is where call c takes the logical position p of an account decorator
AccountTransition(p, c, q) ==
  IF c.op = "seek"
  THEN q = [tag |-> "Seek", key |-> c.key]
  ELSE \/ p.tag = "Seek" /\ q = [tag |-> "Next", key |-> p.key, index |-> 0]
       \/ p.tag = "Next" /\ q = [tag |-> "Next", key |-> p.key, index |-> p.index + 1]

\* every call an account decorator can be given, whether it is answered from the
\* cache, by the real cursor or by an error, moves its position by AccountTransition;
\* a next() before any seek leaves the position Uninit
AccountPositionMoves ==
  \A d \in Cursors :
    /\ \A c \in AccountCalls(d) : \A f \in {0} \cup Fails :
         AccountTransition(account_cursors[d].position, c,
                           AccountAttempt(d, c, f).self.position)
    /\ account_cursors[d].position.tag = "Uninit"
         => AccountNextOp(account_cursors[d], account_cursor_cache, 0).self.position.tag
              = "Uninit"

\* a step changes the position of an account decorator by the transition of
\* some call only, and never to Uninit
AccountPositionStep ==
  \A d \in Cursors :
    \/ account_cursors'[d].position = account_cursors[d].position
    \/ /\ account_cursors'[d].position.tag # "Uninit"
       /\ \E c \in AccountCalls(d) :
            AccountTransition(account_cursors[d].position, c, account_cursors'[d].position)

\* C19: the logical position of the account decorator is a state machine:
\* seek(k) sets it to Seek(k) from every state, also on a cache hit; next() takes
\* Seek(k) to Next(k,0) and Next(k,i) to Next(k,i+1), also when it returns absence;
\* there is no other transition and the position never returns to Uninit.
C19_AccountPositionMachine == [](AccountPositionMoves) /\ [][AccountPositionStep]_vars

\* a decorator has gone on past a next() that returned absence, and a seek of a
\* cached key would take it back to Seek
C19_Witness ==
  \E d \in Cursors :
    /\ account_cursors[d].position.tag = "Next"
    /\ account_cursors[d].position.index >= 1
    /\ account_cursors[d].last_value = None
    /\ LET ts == AccountSequenceOf(account_cursors[d].position.key).terminated_size
       IN  IsSome(ts) /\ Unwrap(ts) < account_cursors[d].position.index
    /\ \E k \in DOMAIN account_cursor_cache.seek_cache :
         k # account_cursors[d].position.key

\* the is_storage_empty calls among the calls decorator d can be given
ProbeCalls(d) == {c \in StorageCalls(d) : c.op = "is_storage_empty"}

\* C20: is_storage_empty(account) is a memoized probe independent of position:
\* over all decorators of a storage cache the real probe succeeds at most once
\* per account, every call that returns a value returns what the real probe
\* gives for the account, and a call changes neither the logical position nor
\* the recorded physical position of its decorator nor any sequence entry.
C20_EmptyProbeMemoized ==
  /\ \A k \in ProbeKeys : CopiesIn(Slot("empty_storage", <<k, k>>, 0), commits) <= 1
  /\ \A d \in Cursors : \A c \in ProbeCalls(d) : \A f \in {0} \cup Fails :
       LET o == StorageAttempt(d, c, f)
       IN  /\ o.res \in {Err, Ok(c.key[1] \in empty_storage)}
           /\ f = 0 => o.res # Err
           /\ o.probes <= 1
           /\ c.key[1] \in DOMAIN storage_cursor_cache.empty_storage
                => o.probes = 0 /\ o.res # Err
           /\ o.self.position = storage_cursors[d].position
           /\ o.self.cursor_pos = storage_cursors[d].cursor_pos
           /\ o.cache.seek_cache = storage_cursor_cache.seek_cache

\* both accounts have been probed, one with and one without storage, and a
\* decorator that is in the middle of a sequence is answered from the table
C20_Witness ==
  /\ \A k \in ProbeKeys : CopiesIn(Slot("empty_storage", <<k, k>>, 0), commits) = 1
  /\ \E d \in Cursors :
       /\ storage_cursors[d].position.tag = "Seek"
       /\ storage_cursors[d].position.index >= 1
       /\ storage_cursors[d].cursor_pos.tag = "Seek"
       /\ \A c \in ProbeCalls(d) : StorageAttempt(d, c, 0).probes = 0

\* Second repeats the log: the next call of the log returns what it returned to
\* First and issues no real call, and the real cursor of Second was never used
TrieReplayed ==
  IsSome(trie_cursors[Second]) =>
    /\ Unwrap(trie_cursors[Second]).cursor =
         NewRealTrieCursor(Unwrap(trie_cursors[First]).cursor.scope, trie_miss)
    /\ Unwrap(trie_cursors[Second]).cursor_last_seek = SeekArgsNone
    /\ trie_replay.n < Len(trie_log) =>
         LET e == trie_log[trie_replay.n + 1]
             o == TrieOutcome(Second, e.call)
         IN  o.res = e.res /\ TrieReal(o) = 0

\* seek_exact(p) returns the exact match and seek(p) the nearest match whatever
\* the table of the other holds, and current() returns the entry of the current
\* table for the tagged last seek when there is one
TrieTablesApart ==
  \A d \in Decorators : IsSome(trie_cursors[d]) =>
    LET self  == Unwrap(trie_cursors[d])
        fresh == NewRealTrieCursor(self.cursor.scope, trie_miss)
    IN  /\ \A p \in TriePaths :
             /\ TrieSeekExact(self, TrieCacheOf(d), p, 0).res =
                  Ok(RealTrieSeekExact(fresh, p).val)
             /\ TrieSeek(self, TrieCacheOf(d), p, 0).res = Ok(RealTrieSeek(fresh, p).val)
             /\ p \in DOMAIN TrieCacheOf(d).seek_exact
                  => TrieReal(TrieSeekExact(self, TrieCacheOf(d), p, 0)) = 0
             /\ p \in DOMAIN TrieCacheOf(d).seek
                  => TrieReal(TrieSeek(self, TrieCacheOf(d), p, 0)) = 0
        /\ self.last_seek \in DOMAIN TrieCacheOf(d).current
             => /\ TrieCurrent(self, TrieCacheOf(d), 0).res =
                     Ok(TrieCacheOf(d).current[self.last_seek])
                /\ TrieReal(TrieCurrent(self, TrieCacheOf(d), 0)) = 0

\* C21: seek_exact(p) and seek(p) of the trie decorator are memoized in separate
\* tables, a cached result of one is never returned for the other, and current()
\* is memoized by the tag of the caller's last seek; when Second, sharing the
\* cache of First, repeats the seek_exact, seek and current calls First has
\* completed, it gets the same results and its real cursor gets no call.
C21_TrieReplay == TrieReplayed /\ TrieTablesApart

\* Second has repeated a seek and a seek_exact of one path with two results and a
\* current for which First used its real cursor, and has not used its own
C21_Witness ==
  /\ IsSome(trie_cursors[Second])
  /\ trie_replay.n >= 2
  /\ Unwrap(trie_cursors[Second]).cursor.pos = None
  /\ \E i \in 1..trie_replay.n :
       trie_log[i].call.op = "current" /\ trie_log[i].real > 0
  /\ \E p \in TriePaths :
       /\ p \in DOMAIN TrieCacheOf(Second).seek
       /\ p \in DOMAIN TrieCacheOf(Second).seek_exact
       /\ TrieCacheOf(Second).seek[p] # TrieCacheOf(Second).seek_exact[p]

\* the mutex the thread of decorator d waits for, none when it waits for none
Awaited(d) ==
  IF trie_threads[d].op # "idle" /\ trie_threads[d].at <= Len(ThreadLocks(d))
  THEN {ThreadLocks(d)[trie_threads[d].at]}
  ELSE {}

\* no set of threads is such that each waits for a mutex one of them holds
NoWaitCycle ==
  \A W \in (SUBSET Decorators) \ {{}} :
    \E d \in W : \A m \in Awaited(d) : \A e \in W : m \notin trie_threads[e].holds

\* while a thread is in a call, a thread that is in a call can take its next
\* step: be given the mutex it waits for, or return
SomeCallGoesOn ==
  (\E d \in Decorators : trie_threads[d].op # "idle")
    => ENABLED (\E d \in Decorators : ThreadLock(d) \/ ThreadReturn(d))

\* a thread calls lock() with no guard in its hands; the guard of the map of the
\* sub-caches is held in the lookup of storage_tries_cursor only, and the guard
\* of a cache by a call of a decorator of that cache only
GuardsNotNested ==
  \A d \in Decorators :
    /\ Awaited(d) # {} => trie_threads[d].holds = {}
    /\ trie_threads[d].op \in {"idle", "account_trie_cursor"} => trie_threads[d].holds = {}
    /\ trie_threads[d].op = "storage_tries_cursor"
         => trie_threads[d].holds \subseteq {StorageCacheMutex}
    /\ trie_threads[d].op \notin FactoryOps \cup {"idle"}
         => trie_threads[d].holds \subseteq {Unwrap(trie_cursors[d]).cache}

\* C22: the two-level locking of the trie caches is free of deadlock: the lock of
\* the map from an account to its sub-cache is held for the lookup or insert of
\* the handle only, no lock of a sub-cache is held while the lock of the map is
\* requested, and no interleaving of factory calls and cursor calls of the
\* threads reaches a state where threads wait for each other's locks for ever.
C22_LockingDeadlockFree == NoWaitCycle /\ SomeCallGoesOn /\ GuardsNotNested

\* a thread waits for the cache another thread holds in a call, while a third
\* holds the map of the sub-caches in a factory call
C22_Witness ==
  \E d, e, g \in Decorators :
    /\ d # e
    /\ Awaited(d) # {}
    /\ Awaited(d) \subseteq trie_threads[e].holds
    /\ trie_threads[e].op \notin FactoryOps
    /\ trie_threads[g].holds = {StorageCacheMutex}

\* C23: from every reachable cache state a call of size() by a thread that holds
\* no mutex of the cache, with no other thread holding one for ever, returns; it
\* requests neither the mutex of the account cache nor that of the storage cache
\* while a guard of the same call on that mutex is alive.
C23_SizeCompletes ==
  /\ \A i, j \in 1..Len(SizeLocks) : i < j => SizeLocks[i] # SizeLocks[j]
  /\ \A relock \in RelockOutcomes :
       Size(account_cursor_cache, storage_cursor_cache, relock).returns

\* C24: when a real call fails inside seek() or next() of an account or storage
\* decorator, the logical position of the decorator is what it was before the
\* call, so that a retried next() asks for the same (key, index) again.
C24_FailedCallKeepsPosition ==
  \A d \in Cursors : \A f \in Fails :
    /\ kind = "account" =>
         \A c \in AccountCalls(d) :
           AccountAttempt(d, c, f).res = Err
             => AccountAttempt(d, c, f).self.position = account_cursors[d].position
    /\ kind = "storage" =>
         \A c \in StorageCalls(d) :
           (c.op # "is_storage_empty" /\ StorageAttempt(d, c, f).res = Err)
             => StorageAttempt(d, c, f).self.position = storage_cursors[d].position

\* the decorators of the kind whose position is Uninit
AccountUnsought == {d \in Cursors : kind = "account" /\ account_cursors[d].position.tag = "Uninit"}
StorageUnsought == {d \in Cursors : kind = "storage" /\ storage_cursors[d].position.tag = "Uninit"}

\* the fatal fault of next() before a seek is raised with the mutex of the cache
\* not held: after it the mutex is free and not poisoned and the decorator and
\* the cache are what they were
FaultContained ==
  /\ ~NextFaultMutex(LeafNextSteps).held
  /\ ~NextFaultMutex(LeafNextSteps).poisoned
  /\ \A d \in AccountUnsought :
       LET o == AccountNextOp(account_cursors[d], account_cursor_cache, 0)
       IN  o.res = Fatal /\ o.cache = account_cursor_cache /\ o.self = account_cursors[d]
  /\ \A d \in StorageUnsought :
       LET o == StorageNextOp(storage_cursors[d], storage_cursor_cache, 0)
       IN  o.res = Fatal /\ o.cache = storage_cursor_cache /\ o.self = storage_cursors[d]

\* after the fault of a decorator every call of every other decorator of the
\* cache completes, with the result and the effect it has without the fault
OthersGoOn ==
  /\ \A d \in AccountUnsought : \A e \in Cursors \ {d} : \A c \in AccountCalls(e) :
       LET o == AccountNextOp(account_cursors[d], account_cursor_cache, 0)
           r == AccountLocked(account_cursors[e], o.cache,
                              NextFaultMutex(LeafNextSteps), c)
       IN  r.res # Fatal /\ r = AccountOutcome(e, c)
  /\ \A d \in StorageUnsought : \A e \in Cursors \ {d} : \A c \in StorageCalls(e) :
       LET o == StorageNextOp(storage_cursors[d], storage_cursor_cache, 0)
           r == StorageLocked(storage_cursors[e], o.cache,
                              NextFaultMutex(LeafNextSteps), c)
       IN  r.res # Fatal /\ r = StorageOutcome(e, c)

\* C25: the fatal fault of next() before a seek of a leaf decorator is raised
\* before the decorator locks the shared cache: after the fault the lock is free
\* and not poisoned, the cache is unchanged, and every other decorator of the
\* cache goes on to complete its calls, with the results it gives when no
\* decorator has faulted.
C25_FaultIsolation == FaultContained /\ OthersGoOn

\* a decorator that was given no seek can fault while another decorator of the
\* cache is in the middle of a cached sequence and can go on with its real cursor
C25_Witness ==
  \/ \E d \in AccountUnsought : \E e \in Cursors \ {d} :
       /\ account_cursors[e].position.tag = "Next"
       /\ IsSome(account_cursors[e].last_value)
       /\ \E c \in AccountCalls(e) : c.op = "next" /\ AccountOutcome(e, c).nexts = 1
  \/ \E d \in StorageUnsought : \E e \in Cursors \ {d} :
       /\ storage_cursors[e].position.tag = "Seek"
       /\ storage_cursors[e].position.index >= 1
       /\ \E c \in StorageCalls(e) : c.op = "next" /\ StorageOutcome(e, c).nexts = 1

\* the real account cursor c is positioned on the entry with key k
PositionedOn(c, k) == c.idx < Len(account_data) /\ account_data[c.idx + 1][1] = k

\* underlying_cursor_last_key of decorator state self tells where its real cursor
\* is: Some(k) on the entry with key k, None on no entry
TrackerTells(self) ==
  /\ IsSome(self.underlying_cursor_last_key)
       => PositionedOn(self.cursor, Unwrap(self.underlying_cursor_last_key))
  /\ self.underlying_cursor_last_key = None => self.cursor.idx >= Len(account_data)

\* the tracker of every decorator is accurate: it is None with a real cursor that
\* was never used or is on no entry, and every call keeps it accurate
TrackerAccurate ==
  \A d \in Cursors :
    /\ \/ TrackerTells(account_cursors[d])
       \/ /\ account_cursors[d].underlying_cursor_last_key = None
          /\ account_cursors[d].cursor = NewTestAccountCursor
    /\ \A c \in AccountCalls(d) :
         LET o == AccountOutcome(d, c)
         IN  IF o.seeks + o.nexts > 0
             THEN TrackerTells(o.self)
             ELSE /\ o.self.cursor = account_cursors[d].cursor
                  /\ o.self.underlying_cursor_last_key =
                       account_cursors[d].underlying_cursor_last_key

\* the decorator as it is when its next() issues the real next(): the real next()
\* is made to fail, and the error leaves the decorator as it is at that moment
AtRealNext(d) ==
  {AccountAttempt(d, c, f).self :
     c \in {x \in AccountCalls(d) : x.op = "next"},
     f \in {g \in Fails : /\ AccountAttempt(d, [op |-> "next", key |-> 0], g).res = Err
                          /\ AccountAttempt(d, [op |-> "next", key |-> 0], g).nexts = 1}}

\* when a real next() is issued the real cursor is on the last cached entry of
\* the sequence asked for, or where seek(key) lands when the sequence is empty
RealNextFromLast ==
  \A d \in Cursors : \A self \in AtRealNext(d) :
    LET values == AccountSequenceOf(self.position.key).values
    IN  IF Len(values) > 0
        THEN /\ PositionedOn(self.cursor, values[Len(values)][1])
             /\ account_data[self.cursor.idx + 1] = values[Len(values)]
        ELSE self.cursor = TestAccountSeek(self.cursor, self.position.key).cursor

\* C26: in every reachable state with no failed real call, underlying_cursor_last_key
\* of an account decorator is Some(k) exactly when its real cursor is positioned on
\* the entry with key k, and None when the cursor was never positioned or its last
\* real call returned absence; when a real next() is issued the real cursor is on
\* the last cached entry of the sequence asked for, or where seek(key) lands when
\* that sequence is empty.
C26_TrackerAccuracy == TrackerAccurate /\ RealNextFromLast

\* a decorator whose real cursor is on an entry that is not the last cached entry
\* of its sequence is about to catch up and issue a real next(), while the real
\* cursor of another decorator has run off the end
C26_Witness ==
  \E d \in Cursors : \E e \in Cursors \ {d} :
    /\ IsSome(account_cursors[d].underlying_cursor_last_key)
    /\ account_cursors[d].position.tag # "Uninit"
    /\ Len(AccountSequenceOf(account_cursors[d].position.key).values) > 0
    /\ AccountBehind(d)
    /\ AtRealNext(d) # {}
    /\ account_cursors[e].underlying_cursor_last_key = None
    /\ account_cursors[e].cursor.idx = Len(account_data)

=============================================================================
